---- MODULE Spec2Model ----
(***************************************************************************)
(* Model of llama_dashboard's multi-model manager                          *)
(* (crates/server/src/services/model_manager.rs).                          *)
(*                                                                         *)
(* The slot map is a HashMap guarded by an RwLock: every section of code   *)
(* that runs under one acquisition of that lock is one atomic action.      *)
(* load() spans several such sections and holds the load mutex across all  *)
(* of them, so it is modelled per calling thread with a program counter.   *)
(* An Arc<LoadedModel> is an object number; its strong count is the slot's *)
(* reference, plus the references held by callers (pins), plus the local   *)
(* variable of a load() that has not returned yet.                         *)
(* Instant::now() reads the variable now; the clock is monotonic, and two  *)
(* reads may return the same instant unless Tick happened in between.      *)
(***************************************************************************)
EXTENDS Integers, FiniteSets, Sequences, TLC

\* ---------------------------------------------------------------- bounds
NumThreads == 2      \* threads that may call load()
MaxObjs == 2         \* LoadedModel objects of one id alive at the same time
MaxPins == 1         \* Arc<LoadedModel> clones callers hold at the same time
MaxTime == 2         \* instants the clock runs through
MaxTimeout == 2      \* largest timeout_secs passed to sweep_idle
MaxMaxModels == 2    \* largest configured max_models
MaxStem == 3         \* longest file stem a scanned model file has
MaxPrompt == 2       \* longest prompt, in tokens
MaxTokens == 10      \* largest max_tokens of a request
MaxCtx == 5          \* largest context size n_ctx
ChannelCap == 2      \* capacity of the token channel a run is given
NumHandlers == 2     \* completion requests in flight at the same time
MaxEvents == 3       \* envelopes sent on the broadcast channel
MaxKvs == 2          \* metadata entries of a scanned file
TensorBytes == 4     \* bytes that follow the metadata of a scanned file
MaxFiles == 3        \* files below a scanned directory
ClockStep == 10      \* seconds between two readings of the idle checker's clock
MaxClock == 80       \* seconds the idle checker's clock runs through
NumLockThreads == 3  \* threads that call the manager's methods at the same time
MaxCalls == 5        \* calls of the manager's methods in one behaviour
MaxSegs == 4         \* hyphen-separated segments of a file name given to detect_split_base
MaxTokensAny == 4    \* largest max_tokens of a request of SpecGenAny

Ids == {"A", "B", "C"}
Threads == 1..NumThreads
\* An Arc<LoadedModel> points to object number IdIndex(id) * MaxObjs + k,
\* the k-th object of that id (LoadedModel.id) alive at the same time.
IdIndex(id) == CASE id = "A" -> 0 [] id = "B" -> 1 [] OTHER -> 2
HandlesOf(id) == (IdIndex(id) * MaxObjs + 1)..(IdIndex(id) * MaxObjs + MaxObjs)
Handles == UNION {HandlesOf(id) : id \in Ids}
None == 0            \* Option::None for a handle, Err(_) for load's result
NoName == "-"        \* resolve(None)

VARIABLES
    slots,       \* HashMap<String, ModelSlot>
    pins,        \* per object: Arc clones held outside the manager
    load_lock,   \* holder of the load mutex, 0 when free
    pc,          \* per thread: where it is inside load()
    lid,         \* per thread: load()'s local id
    lres,        \* per thread: load()'s local Arc (None: no handle)
    max_models,  \* config.max_models
    now,         \* the monotonic clock
    ret,         \* what the step just taken let its caller see: see Returned
    \* ---- one run of generate_blocking and its token channel
    request,            \* GenerateRequest: tokens, max_tokens, stop_words
    n_ctx,              \* ctx.n_ctx()
    n_cur,              \* generate_blocking's local n_cur
    completion_tokens,  \* generate_blocking's local completion_tokens
    generated_text,     \* generate_blocking's local generated_text
    gpc,                \* where generate_blocking is
    pending,            \* the event the blocking_send under way is sending
    chan,               \* the events buffered in the mpsc channel
    rx_open,            \* the Receiver has not been dropped
    received,           \* the events the consumer took from the channel
    emitted,            \* the events handed to blocking_send so far
    sampled,            \* the tokens sampler.sample returned so far
    late_decodes,       \* ctx.decode calls made after the Receiver was dropped
    batch,              \* generate_blocking's local batch
    \* ---- one model file on its way from the scanner to the slot table
    path,               \* the file's stem
    catalog,            \* the id the scanner's catalog entry carries
    \* ---- the HTTP handlers, their workers, and the event channel
    handlers,           \* per handler: where it is, the Arcs it holds
    objects,            \* per LoadedModel: model, context, its mutex and KV cache
    bus,                \* the envelopes sent on the broadcast channel
    \* ---- the directory scanner and the header reader
    scan,               \* scan_directory's files, entries and position
    quick,              \* quick_scan's file, reader position and result
    \* ---- the idle checker task
    checker,            \* spawn_idle_checker's interval, task and signals
    \* ---- the manager's locks
    locks               \* the two RwLocks, and where each calling thread is

\* The manager's state, the generation run's, and the scanned file's.
mvars == <<slots, pins, load_lock, pc, lid, lres, max_models, now, ret>>
gvars == <<request, n_ctx, n_cur, completion_tokens, generated_text, gpc, pending,
           chan, rx_open, received, emitted, sampled, late_decodes, batch>>
ivars == <<path, catalog>>
\* The handlers', the event channel's, the scanner's and the checker's.
yvars == <<bus, scan, quick, checker, locks>>
xvars == <<handlers, objects, yvars>>
vars == <<mvars, gvars, ivars, xvars>>

\* ------------------------------------------------------------ HashMap ops
Insert(s, id, slot) == [k \in (DOMAIN s) \cup {id} |-> IF k = id THEN slot ELSE s[k]]
Remove(s, id) == [k \in (DOMAIN s) \ {id} |-> s[k]]
RemoveAll(s, D) == [k \in (DOMAIN s) \ D |-> s[k]]

ModelSlot(st, h, t) == [status |-> st, loaded |-> h, last_used |-> t]

\* What a step shows its caller: the call and the value it returned (unload:
\* 1 for true; resolve, load: the handle; sweep_idle: the number of models it
\* logged as unloaded). Quiet stands for every step that returns nothing, or
\* false, None, Err(_), or that is not the end of a call.
Quiet == [op |-> "-", val |-> 0]
Returned(op, v) == IF v = 0 THEN Quiet ELSE [op |-> op, val |-> v]

\* ----------------------------------------------------------- Arc counting
\* References held by the slot table on object h.
SlotRefs(s, h) == Cardinality({k \in DOMAIN s : s[k].loaded = h})

\* References held by the locals of load() calls in flight.
LocalRefs(p, r, h) == Cardinality({t \in Threads : p[t] \in {"touch", "ret"} /\ r[t] = h})

\* Arc::strong_count
StrongCount(s, pn, p, r, h) == SlotRefs(s, h) + pn[h] + LocalRefs(p, r, h)

\* The LoadedModel objects not dropped yet: those some Arc still points to.
Alive(s, pn, p, r) == {h \in Handles : StrongCount(s, pn, p, r, h) > 0}

\* The Arc clones callers hold, over all objects.
RECURSIVE Sum(_, _)
Sum(f, S) == IF S = {} THEN 0 ELSE LET x == CHOOSE y \in S : TRUE IN f[x] + Sum(f, S \ {x})
Held(pn) == Sum(pn, Handles)

\* pin count of a slot: outstanding references beyond the slot's own
PinCount(s, pn, p, r, id) ==
    IF s[id].loaded = None THEN 0
    ELSE StrongCount(s, pn, p, r, s[id].loaded) - 1

\* A faulty variant: the reference check is left out.
Unreferenced_Unchecked(s, pn, p, r, id) == TRUE

\* `.map(|l| Arc::strong_count(l) <= 1).unwrap_or(true)`
Unreferenced(s, pn, p, r, id) ==
    IF s[id].loaded = None THEN TRUE
    ELSE StrongCount(s, pn, p, r, s[id].loaded) <= 1

\* No generation is running: the run's variables rest.
NoEvent == [type |-> "-"]
NoRequest == [tokens |-> << >>, max_tokens |-> 0, stop_words |-> << >>]
NoBatch == [capacity |-> 0, token |-> << >>, pos |-> << >>, logits |-> << >>, overflow |-> FALSE]
Max(a, b) == IF a >= b THEN a ELSE b
Last(es) == es[Len(es)]
GenOff ==
    /\ request = NoRequest
    /\ n_ctx = 0
    /\ n_cur = 0
    /\ completion_tokens = 0
    /\ generated_text = << >>
    /\ gpc = "off"
    /\ pending = NoEvent
    /\ chan = << >>
    /\ rx_open = FALSE
    /\ received = << >>
    /\ emitted = << >>
    /\ sampled = << >>
    /\ late_decodes = 0
    /\ batch = NoBatch

\* No file is being scanned.
NoFile == path = << >> /\ catalog = << >>

\* No request is being served: every handler is parked, no context is locked
\* and no KV cache holds anything.
HandlerIds == 1..NumHandlers
Parked == [pc |-> "idle", loaded |-> None, model |-> None]
\* A LoadedModel as load() makes it (model and context allocated, mutex
\* free, cache empty), and what is left of one whose context was freed while
\* its model lives on.
NewObject == [model |-> TRUE, context |-> TRUE, lock |-> 0, kv |-> {}]
ModelOnly == [model |-> TRUE, context |-> FALSE, lock |-> 0, kv |-> {}]
NoHandlers ==
    /\ handlers = [w \in HandlerIds |-> Parked]
    /\ objects = << >>

\* The objects a step on the table dropped the slot's Arc of.
Dropped(s, t) ==
    {s[k].loaded : k \in {j \in DOMAIN s : j \notin DOMAIN t \/ t[j].loaded # s[j].loaded}}

\* Drop for LoadedModel: once no Arc<LoadedModel> points to an object its
\* context is freed (Drop for LlamaContext), and its model is freed with it
\* (Drop for LlamaModel) unless a handler holds a clone of the
\* Arc<LlamaModel>, which keeps the model alone.
\* A faulty variant: an object is freed as soon as its slot is gone.
Reap_WithSlot(o, hs, s, pn, p, r, H) ==
    [h \in (DOMAIN o) \ {d \in H : SlotRefs(s, d) = 0} |-> o[h]]

\* H: the objects the step dropped an Arc of.
Reap(o, hs, s, pn, p, r, H) ==
    LET dead == {h \in H \cap DOMAIN o : StrongCount(s, pn, p, r, h) = 0}
        kept == {h \in dead : \E w \in HandlerIds : hs[w].model = h}
    IN  IF dead = {} THEN o
        ELSE [h \in (DOMAIN o) \ (dead \ kept) |-> IF h \in kept THEN ModelOnly ELSE o[h]]

\* Nothing was sent on the broadcast channel.
NoBus == bus = << >>

\* No directory is being scanned, no header is being read, no checker task
\* was asked for.
NoScan == scan = [pc |-> "off"]
NoQuick == quick = [pc |-> "off"]
NoChecker == checker = [pc |-> "off"]

\* All that is outside the manager, the generation run and the scanned file
\* rests.
NoLocks == locks = [pc |-> "off"]
XOff == NoHandlers /\ NoBus /\ NoScan /\ NoQuick /\ NoChecker /\ NoLocks

\* ModelManager::new: no slot, nobody inside load.
ManagerNew ==
    /\ slots = << >>
    /\ pins = [h \in Handles |-> 0]
    /\ load_lock = 0
    /\ pc = [t \in Threads |-> "idle"]
    /\ lid = [t \in Threads |-> NoName]
    /\ lres = [t \in Threads |-> None]
    /\ now = 0
    /\ ret = Quiet

Init ==
    /\ ManagerNew
    /\ max_models \in 0..MaxMaxModels
    /\ GenOff
    /\ NoFile
    /\ XOff

\* Time passes.
Tick ==
    /\ now < MaxTime
    /\ now' = now + 1
    /\ ret' = Quiet
    /\ UNCHANGED <<gvars, ivars, xvars, slots, pins, load_lock, pc, lid, lres, max_models>>

\* ------------------------------------------------------------------ load
\* load() is called: the thread goes for the load mutex.
LoadCall(t) ==
    /\ pc[t] = "idle"
    /\ pc' = [pc EXCEPT ![t] = "wait"]
    /\ ret' = Quiet
    /\ UNCHANGED <<gvars, ivars, xvars, slots, pins, load_lock, lid, lres, max_models, now>>

\* A faulty variant: load does not wait for the mutex.
LockFree_Unguarded(t) == TRUE

\* `let _guard = self.load_lock.lock().unwrap();`
LockFree(t) == load_lock = 0

\* The mutex is acquired. The local id, which nothing reads before this
\* point, is drawn here.
LoadLock(t, id) ==
    /\ pc[t] = "wait"
    /\ LockFree(t)
    /\ load_lock' = t
    /\ lid' = [lid EXCEPT ![t] = id]
    /\ pc' = [pc EXCEPT ![t] = "check"]
    /\ ret' = Quiet
    /\ UNCHANGED <<gvars, ivars, xvars, slots, pins, lres, max_models, now>>

\* A faulty variant: the table is not consulted, every call loads anew.
AlreadyLoaded_Never(s, id) == FALSE

\* "If already loaded, just touch + return": the read section.
AlreadyLoaded(s, id) ==
    /\ id \in DOMAIN s
    /\ s[id].status = "Ready"
    /\ s[id].loaded # None

LoadCheck(t) ==
    /\ pc[t] = "check"
    /\ IF AlreadyLoaded(slots, lid[t])
       THEN /\ lres' = [lres EXCEPT ![t] = slots[lid[t]].loaded]
            /\ pc' = [pc EXCEPT ![t] = "touch"]
       ELSE /\ lres' = [lres EXCEPT ![t] = None]
            /\ pc' = [pc EXCEPT ![t] = "evict"]
    /\ ret' = Quiet
    /\ UNCHANGED <<gvars, ivars, xvars, slots, pins, load_lock, lid, max_models, now>>

\* touch(): `if let Some(slot) = slots.get_mut(id) { slot.last_used = now }`
TouchSlots(s, id, t) ==
    IF id \in DOMAIN s THEN [s EXCEPT ![id].last_used = t] ELSE s

\* `self.touch(&id)` on the already-loaded path.
LoadTouch(t) ==
    /\ pc[t] = "touch"
    /\ slots' = TouchSlots(slots, lid[t], now)
    /\ pc' = [pc EXCEPT ![t] = "ret"]
    /\ ret' = Quiet
    /\ UNCHANGED <<gvars, ivars, xvars, pins, load_lock, lid, lres, max_models, now>>

\* ------------------------------------------------------------ maybe_evict
\* The slots counted against max_models.
Counted(s) == {k \in DOMAIN s : s[k].status \in {"Ready", "Loading"}}

\* The slots eviction may choose from.
Evictable(s, pn, p, r) ==
    {k \in DOMAIN s : s[k].status = "Ready" /\ Unreferenced(s, pn, p, r, k)}

\* A faulty variant: max_by_key, the most recently used slot is chosen.
Victims_MostRecent(s, pn, p, r) ==
    {k \in Evictable(s, pn, p, r) :
        \A o \in Evictable(s, pn, p, r) : s[k].last_used >= s[o].last_used}

\* `.min_by_key(|(_, s)| s.last_used)`: HashMap iteration order decides ties.
Victims(s, pn, p, r) ==
    {k \in Evictable(s, pn, p, r) :
        \A o \in Evictable(s, pn, p, r) : s[k].last_used <= s[o].last_used}

\* A faulty variant: `>` for `>=`, eviction starts one model too late.
AtCapacity_Late(s, max) == Cardinality(Counted(s)) > max

\* `while count >= max`
AtCapacity(s, max) == Cardinality(Counted(s)) >= max

\* The tables the eviction loop may end with.
RECURSIVE EvictLoop(_, _, _, _, _)
EvictLoop(s, pn, p, r, max) ==
    IF AtCapacity(s, max)
    THEN IF Victims(s, pn, p, r) = {}
         THEN {s}
         ELSE UNION {EvictLoop(Remove(s, v), pn, p, r, max) : v \in Victims(s, pn, p, r)}
    ELSE {s}

MaybeEvict(s, pn, p, r, max) ==
    IF max = 0 THEN {s} ELSE EvictLoop(s, pn, p, r, max)

LoadEvict(t) ==
    /\ pc[t] = "evict"
    /\ slots' \in MaybeEvict(slots, pins, pc, lres, max_models)
    /\ pc' = [pc EXCEPT ![t] = "mark"]
    /\ ret' = Quiet
    /\ UNCHANGED <<gvars, ivars, handlers, yvars, pins, load_lock, lid, lres, max_models, now>>
    /\ objects' = Reap(objects, handlers, slots', pins', pc', lres', Dropped(slots, slots'))

\* "Mark loading"
LoadMark(t) ==
    /\ pc[t] = "mark"
    /\ slots' = Insert(slots, lid[t], ModelSlot("Loading", None, now))
    /\ pc' = [pc EXCEPT ![t] = "read"]
    /\ ret' = Quiet
    /\ UNCHANGED <<gvars, ivars, handlers, yvars, pins, load_lock, lid, lres, max_models, now>>
    /\ objects' = Reap(objects, handlers, slots', pins', pc', lres', Dropped(slots, slots'))

\* Arc::new(LoadedModel { id, .. }): an object number of that id not in use.
FreeHandles(id) == HandlesOf(id) \ DOMAIN objects
NewHandle(id) == CHOOSE h \in FreeHandles(id) : \A o \in FreeHandles(id) : h <= o

\* What the Ok branch writes into the table.
ReadySlots(s, id, h, t) == Insert(s, id, ModelSlot("Ready", h, t))

\* The model is read and the context created, and the slot becomes Ready.
LoadOk(t) ==
    /\ pc[t] = "read"
    /\ FreeHandles(lid[t]) # {}
    /\ LET h == NewHandle(lid[t]) IN
        /\ slots' = ReadySlots(slots, lid[t], h, now)
        /\ lres' = [lres EXCEPT ![t] = h]
        /\ pc' = [pc EXCEPT ![t] = "ret"]
    /\ ret' = Quiet
    /\ UNCHANGED <<gvars, ivars, handlers, yvars, pins, load_lock, lid, max_models, now>>
    /\ objects' = Reap(Insert(objects, NewHandle(lid[t]), NewObject),
                       handlers, slots', pins', pc', lres', Dropped(slots, slots'))

\* A faulty variant: the Err branch leaves the Loading slot in the table.
FailedSlots_Parked(s, id) == s

\* What the Err branch leaves of the table.
FailedSlots(s, id) == Remove(s, id)

\* The model read or the context creation fails.
LoadFail(t) ==
    /\ pc[t] = "read"
    /\ slots' = FailedSlots(slots, lid[t])
    /\ lres' = [lres EXCEPT ![t] = None]
    /\ pc' = [pc EXCEPT ![t] = "ret"]
    /\ ret' = Quiet
    /\ UNCHANGED <<gvars, ivars, xvars, pins, load_lock, lid, max_models, now>>

\* load() returns: the guard is dropped, the caller owns the Arc and keeps
\* it (a pin) or drops it at once.
LoadReturn(t, keep) ==
    /\ pc[t] = "ret"
    /\ keep => (lres[t] # None /\ Held(pins) < MaxPins)
    /\ load_lock' = 0
    /\ pc' = [pc EXCEPT ![t] = "idle"]
    /\ pins' = IF keep THEN [pins EXCEPT ![lres[t]] = @ + 1] ELSE pins
    /\ lres' = [lres EXCEPT ![t] = None]
    /\ lid' = [lid EXCEPT ![t] = NoName]
    /\ ret' = Returned("load", lres[t])
    /\ UNCHANGED <<gvars, ivars, handlers, yvars, slots, max_models, now>>
    /\ objects' = Reap(objects, handlers, slots', pins', pc', lres', {lres[t]})

\* ---------------------------------------------------------------- unload
\* `slot.status = Unloading; slot.loaded.take();`
MarkUnloading(s, id) == [s EXCEPT ![id] = ModelSlot("Unloading", None, @.last_used)]

\* A faulty variant: the slot is marked Unloading and never removed.
UnloadSlots_Parked(s, id) ==
    IF id \in DOMAIN s THEN MarkUnloading(s, id) ELSE s

\* The table unload() leaves behind.
UnloadSlots(s, id) ==
    IF id \in DOMAIN s THEN Remove(MarkUnloading(s, id), id) ELSE s

\* A faulty variant: unload() answers true whatever it found.
UnloadRet_Always(s, id) == 1

\* unload()'s return value (1: true, 0: false)
UnloadRet(s, id) == IF id \in DOMAIN s THEN 1 ELSE 0

Unload(id) ==
    /\ slots' = UnloadSlots(slots, id)
    /\ ret' = Returned("unload", UnloadRet(slots, id))
    /\ UNCHANGED <<gvars, ivars, handlers, yvars, pins, load_lock, pc, lid, lres, max_models, now>>
    /\ objects' = Reap(objects, handlers, slots', pins', pc', lres', Dropped(slots, slots'))

\* `slots.clear()`
UnloadAllSlots(s) == RemoveAll(s, DOMAIN s)

UnloadAll ==
    /\ slots' = UnloadAllSlots(slots)
    /\ ret' = Quiet
    /\ UNCHANGED <<gvars, ivars, handlers, yvars, pins, load_lock, pc, lid, lres, max_models, now>>
    /\ objects' = Reap(objects, handlers, slots', pins', pc', lres', Dropped(slots, slots'))

\* ----------------------------------------------------------------- touch
Touch(id) ==
    /\ slots' = TouchSlots(slots, id, now)
    /\ ret' = Quiet
    /\ UNCHANGED <<gvars, ivars, xvars, pins, load_lock, pc, lid, lres, max_models, now>>

\* --------------------------------------------------------------- resolve
\* A faulty variant: the id is not looked at, any Ready slot will do.
GetLoaded_AnyReady(s, id) ==
    IF \E k \in DOMAIN s : s[k].status = "Ready"
    THEN {s[k].loaded : k \in {m \in DOMAIN s : s[m].status = "Ready"}}
    ELSE {None}

\* get_loaded(): the handles it may return (None: 0)
GetLoaded(s, id) ==
    IF id \in DOMAIN s /\ s[id].status = "Ready" THEN {s[id].loaded} ELSE {None}

\* get_any_loaded(): `.max_by_key(|s| s.last_used)` over the Ready slots
ReadyIds(s) == {k \in DOMAIN s : s[k].status = "Ready"}

\* A faulty variant: min_by_key, the least recently used model is returned.
GetAnyLoaded_Oldest(s) ==
    IF ReadyIds(s) = {} THEN {None}
    ELSE {s[k].loaded : k \in {m \in ReadyIds(s) :
                \A o \in ReadyIds(s) : s[m].last_used <= s[o].last_used}}

GetAnyLoaded(s) ==
    IF ReadyIds(s) = {} THEN {None}
    ELSE {s[k].loaded : k \in {m \in ReadyIds(s) :
                \A o \in ReadyIds(s) : s[o].last_used <= s[m].last_used}}

ResolveRet(s, name) == IF name = NoName THEN GetAnyLoaded(s) ELSE GetLoaded(s, name)

\* resolve(): the caller holds the returned Arc until DropHandle.
Resolve(name) ==
    \E h \in ResolveRet(slots, name) :
        /\ h # None => Held(pins) < MaxPins
        /\ pins' = IF h # None THEN [pins EXCEPT ![h] = @ + 1] ELSE pins
        /\ ret' = Returned("resolve", h)
        /\ UNCHANGED <<gvars, ivars, xvars, slots, load_lock, pc, lid, lres, max_models, now>>

\* A caller (a request handler, a generation worker) drops its Arc.
DropHandle(h) ==
    /\ pins[h] > 0
    /\ pins' = [pins EXCEPT ![h] = @ - 1]
    /\ ret' = Quiet
    /\ UNCHANGED <<gvars, ivars, handlers, yvars, slots, load_lock, pc, lid, lres, max_models, now>>
    /\ objects' = Reap(objects, handlers, slots', pins', pc', lres', {h})

\* ------------------------------------------------------------ sweep_idle
\* `Instant::now() - Duration::from_secs(timeout_secs)`
Cutoff(t, timeout) == t - timeout

\* A faulty variant: `<=` for `<`, a slot used exactly at the cutoff is swept.
Idle_Inclusive(s, pn, p, r, cutoff) ==
    {k \in DOMAIN s :
        /\ s[k].status = "Ready"
        /\ s[k].last_used <= cutoff
        /\ Unreferenced(s, pn, p, r, k)}

Idle(s, pn, p, r, cutoff) ==
    {k \in DOMAIN s :
        /\ s[k].status = "Ready"
        /\ s[k].last_used < cutoff
        /\ Unreferenced(s, pn, p, r, k)}

SweepSlots(s, pn, p, r, t, timeout) ==
    IF timeout = 0 THEN s
    ELSE RemoveAll(s, Idle(s, pn, p, r, Cutoff(t, timeout)))

SweepIdle(timeout) ==
    /\ slots' = SweepSlots(slots, pins, pc, lres, now, timeout)
    /\ ret' = Returned("sweep_idle", Cardinality(DOMAIN slots \ DOMAIN slots'))
    /\ UNCHANGED <<gvars, ivars, handlers, yvars, pins, load_lock, pc, lid, lres, max_models, now>>
    /\ objects' = Reap(objects, handlers, slots', pins', pc', lres', Dropped(slots, slots'))

Next ==
    \/ Tick
    \/ \E t \in Threads : LoadCall(t)
    \/ \E t \in Threads, id \in Ids : LoadLock(t, id)
    \/ \E t \in Threads : LoadCheck(t)
    \/ \E t \in Threads : LoadTouch(t)
    \/ \E t \in Threads : LoadEvict(t)
    \/ \E t \in Threads : LoadMark(t)
    \/ \E t \in Threads : LoadOk(t)
    \/ \E t \in Threads : LoadFail(t)
    \/ \E t \in Threads, keep \in BOOLEAN : LoadReturn(t, keep)
    \/ \E id \in Ids : Unload(id)
    \/ UnloadAll
    \/ \E id \in Ids : Touch(id)
    \/ \E name \in Ids \cup {NoName} : Resolve(name)
    \/ \E h \in Handles : DropHandle(h)
    \/ \E timeout \in 0..MaxTimeout : SweepIdle(timeout)

Spec == Init /\ [][Next]_vars

\* ------------------------------------------- a scanned file and its ids
\* The characters file stems are made of, and the files found by a scan:
\* <stem>.gguf.
Chars == {"m", "M", " ", "-"}
Stems == UNION {[1..n -> Chars] : n \in 1..MaxStem}
Paths == {[stem |-> st, ext |-> "gguf"] : st \in Stems}

\* Path::file_stem
FileStem(p) == p.stem

\* str::to_lowercase, str::replace(' ', "-")
ToLowercase(str) == [i \in 1..Len(str) |-> IF str[i] = "M" THEN "m" ELSE str[i]]
Replace(str, from, to) == [i \in 1..Len(str) |-> IF str[i] = from THEN to ELSE str[i]]

\* The scanner's id of a file.
generate_model_id(p) == Replace(ToLowercase(FileStem(p)), " ", "-")

\* The id load() keys the slot by: the stem as it is.
LoadId(p) == FileStem(p)

\* is_loaded()
IsLoaded(s, id) == id \in DOMAIN s /\ s[id].status = "Ready"

InitId ==
    /\ ManagerNew
    /\ max_models = 0
    /\ GenOff
    /\ path \in Paths
    /\ catalog = << >>
    /\ XOff

\* scan_directory comes to the file and pushes its entry.
ScanFile ==
    /\ catalog = << >>
    /\ catalog' = Append(catalog, [id |-> generate_model_id(path), path |-> path])
    /\ UNCHANGED <<mvars, gvars, xvars, path>>

\* load(path) runs from its call to its return on an empty table, alone,
\* and succeeds; the caller drops the Arc it gets.
LoadFile ==
    /\ slots = << >>
    /\ slots' = ReadySlots(slots, LoadId(path), NewHandle("A"), now)
    /\ objects' = Insert(objects, NewHandle("A"), NewObject)
    /\ UNCHANGED <<pins, load_lock, pc, lid, lres, max_models, now, ret, gvars, ivars,
                   handlers, yvars>>

NextId ==
    \/ ScanFile
    \/ LoadFile

SpecId == InitId /\ [][NextId]_vars

\* ------------------------------------------------- generate_blocking
\* The decoder of a run: the tokens the sampler may return, the model's
\* end tokens, and the vocabulary's pieces.
Vocab == {100, 101, 102}
token_eos == 2
token_eot == 3
SampleTokens == Vocab \cup {token_eos, token_eot}
token_to_piece(tok) ==
    CASE tok = 100 -> <<"a">>
      [] tok = 101 -> <<"b">>
      [] tok = 102 -> <<"c">>
      [] OTHER -> << >>

\* The requests a run is started with: a prompt of tokens 10, 11, ..,
\* max_tokens, and a list of stop words.
Prompts == {[i \in 1..n |-> 9 + i] : n \in 1..MaxPrompt}
StopWordLists == { << >>, << <<"b">> >>, << <<"c">>, <<"b", "c">> >> }
Requests ==
    {[tokens |-> tk, max_tokens |-> m, stop_words |-> sw] :
        tk \in Prompts, m \in 0..MaxTokens, sw \in StopWordLists}

\* GenerateEvent and FinishReason
Token(piece) == [type |-> "Token", piece |-> piece]
Done(reason, p, c) ==
    [type |-> "Done", finish_reason |-> reason, prompt_tokens |-> p, completion_tokens |-> c]
Error(msg) == [type |-> "Error", msg |-> msg]
Stop == [kind |-> "Stop"]
Length == [kind |-> "Length"]
StopWord(w) == [kind |-> "StopWord", word |-> w]

\* A faulty variant: the whole text is compared with the stop word.
EndsWith_Whole(text, w) == text = w

\* str::ends_with
EndsWith(text, w) ==
    /\ Len(w) <= Len(text)
    /\ SubSeq(text, Len(text) - Len(w) + 1, Len(text)) = w

\* `for sw in &request.stop_words { if generated_text.ends_with(sw) .. break }`:
\* the first stop word of the list the text ends with, 0 when there is none.
Matching(text, words) == {i \in 1..Len(words) : EndsWith(text, words[i])}
\* A faulty variant: the last stop word of the list the text ends with.
FirstStop_Last(text, words) ==
    IF Matching(text, words) = {} THEN 0
    ELSE CHOOSE i \in Matching(text, words) : \A j \in Matching(text, words) : i >= j
FirstStop(text, words) ==
    IF Matching(text, words) = {} THEN 0
    ELSE CHOOSE i \in Matching(text, words) : \A j \in Matching(text, words) : i <= j

\* The places where generate_blocking calls blocking_send.
SendSites ==
    {"send_prompt_error", "send_length", "send_stop", "send_stopword",
     "send_token", "send_ctx", "send_error"}

InitGen ==
    /\ ManagerNew
    /\ max_models = 0
    /\ NoFile
    /\ XOff
    /\ request \in Requests
    /\ n_ctx \in 1..MaxCtx
    /\ n_cur = 0
    /\ completion_tokens = 0
    /\ generated_text = << >>
    /\ gpc = "prompt"
    /\ pending = NoEvent
    /\ chan = << >>
    /\ rx_open = TRUE
    /\ received = << >>
    /\ emitted = << >>
    /\ sampled = << >>
    /\ late_decodes = 0
    /\ batch = NoBatch

\* LlamaBatch (batch.rs): new, clear, n_tokens, and add, whose assertion
\* fails when the batch is full.
LlamaBatchNew(n_tokens_max) ==
    [capacity |-> n_tokens_max, token |-> << >>, pos |-> << >>, logits |-> << >>,
     overflow |-> FALSE]
BatchClear(b) == [b EXCEPT !.token = << >>, !.pos = << >>, !.logits = << >>]
NTokens(b) == Len(b.token)
BatchAdd(b, tok, pos, logits) ==
    IF b.overflow \/ ~(NTokens(b) < b.capacity) THEN [b EXCEPT !.overflow = TRUE]
    ELSE [b EXCEPT !.token = Append(@, tok), !.pos = Append(@, pos),
                   !.logits = Append(@, logits)]

\* "Prompt processing": the batch of the prompt, the i-th token (from 0) at
\* position i, logits asked for the last one.
RECURSIVE AddPrompt(_, _, _)
AddPrompt(b, tokens, i) ==
    IF i >= Len(tokens) THEN b
    ELSE AddPrompt(BatchAdd(b, tokens[i + 1], i, i = Len(tokens) - 1), tokens, i + 1)
PromptBatch(tokens) == AddPrompt(LlamaBatchNew(Max(Len(tokens), 1)), tokens, 0)

\* ctx.decode is called once more; the count is of the calls made after
\* the Receiver was dropped.
DecodeCalled == late_decodes' = IF rx_open THEN late_decodes ELSE late_decodes + 1

\* "Prompt processing": the prompt is decoded, and on success the locals of
\* the loop are set up.
PromptDecode(ok) ==
    /\ gpc = "prompt"
    /\ batch' = PromptBatch(request.tokens)
    /\ DecodeCalled
    /\ IF batch'.overflow
       THEN /\ n_cur' = n_cur
            /\ gpc' = "panicked"
            /\ pending' = NoEvent
       ELSE IF ok
       THEN /\ n_cur' = Len(request.tokens)
            /\ gpc' = "loop"
            /\ pending' = NoEvent
       ELSE /\ n_cur' = n_cur
            /\ gpc' = "send_prompt_error"
            /\ pending' = Error("prompt decode")
    /\ completion_tokens' = 0
    /\ generated_text' = << >>
    /\ UNCHANGED <<mvars, ivars, xvars, request, n_ctx, chan, rx_open, received, emitted, sampled>>

\* A faulty variant: `>` for `>=`, one token more than asked for.
AtMaxTokens_Late == completion_tokens > request.max_tokens

\* "Max-tokens guard"
AtMaxTokens == completion_tokens >= request.max_tokens

LengthGuard ==
    /\ gpc = "loop"
    /\ AtMaxTokens
    /\ pending' = Done(Length, Len(request.tokens), completion_tokens)
    /\ gpc' = "send_length"
    /\ UNCHANGED <<mvars, ivars, xvars, request, n_ctx, n_cur, completion_tokens, generated_text,
                   chan, rx_open, received, emitted, sampled, late_decodes, batch>>

\* A faulty variant: only EOS ends the run.
EndToken_EosOnly(tok) == tok = token_eos

\* `new_token == eos || new_token == eot`
EndToken(tok) == tok = token_eos \/ tok = token_eot

\* One pass from the sampler to the next blocking_send: the token is
\* sampled and counted; an end token leads to Done{Stop}; otherwise its piece
\* is appended to the text, which leads to Done{StopWord} when the text now
\* ends with a stop word and to the Token event when not.
SampleStep(tok) ==
    /\ gpc = "loop"
    /\ ~AtMaxTokens
    /\ sampled' = Append(sampled, tok)
    /\ completion_tokens' = completion_tokens + 1
    /\ IF EndToken(tok)
       THEN /\ pending' = Done(Stop, Len(request.tokens), completion_tokens')
            /\ gpc' = "send_stop"
            /\ generated_text' = generated_text
       ELSE /\ generated_text' = generated_text \o token_to_piece(tok)
            /\ LET i == FirstStop(generated_text', request.stop_words) IN
                IF i # 0
                THEN /\ pending' = Done(StopWord(request.stop_words[i]),
                                        Len(request.tokens), completion_tokens')
                     /\ gpc' = "send_stopword"
                ELSE /\ pending' = Token(token_to_piece(tok))
                     /\ gpc' = "send_token"
    /\ UNCHANGED <<mvars, ivars, xvars, request, n_ctx, n_cur, chan, rx_open, received, emitted,
                   late_decodes, batch>>

\* A faulty variant: the sender never notices that the Receiver is gone.
Closed_Unnoticed(open) == FALSE

\* The channel is closed: blocking_send returns Err.
Closed(open) == ~open

\* The channel has a free permit: blocking_send does not block.
HasRoom(c) == Len(c) < ChannelCap

\* A faulty variant: the loop goes on after a Done.
Continue_PastDone(site, cur, ctx) ==
    IF site \in {"send_token", "send_stop"} THEN "decode" ELSE "done"

\* A faulty variant: no "Context-size guard".
Continue_NoCtxGuard(site, cur, ctx) == IF site = "send_token" THEN "decode" ELSE "done"

\* Where generate_blocking goes after a blocking_send that returned Ok: on
\* after a Token, into the "Context-size guard" and from there to the next
\* decode; out of the function after a Done or an Error.
Continue(site, cur, ctx) ==
    IF site = "send_token"
    THEN IF cur >= ctx THEN "send_ctx" ELSE "decode"
    ELSE "done"

\* blocking_send(pending) returns: Err when the Receiver is dropped, and the
\* function is left; Ok when the channel had room. With the channel full
\* and the Receiver alive the call blocks.
Send ==
    /\ gpc \in SendSites
    /\ emitted' = Append(emitted, pending)
    /\ IF Closed(rx_open)
       THEN /\ gpc' = "done"
            /\ pending' = NoEvent
            /\ chan' = chan
       ELSE /\ HasRoom(chan)
            /\ chan' = Append(chan, pending)
            /\ gpc' = Continue(gpc, n_cur, n_ctx)
            /\ pending' = IF gpc' = "send_ctx"
                          THEN Done(Length, Len(request.tokens), completion_tokens)
                          ELSE NoEvent
    /\ UNCHANGED <<mvars, ivars, xvars, request, n_ctx, n_cur, completion_tokens, generated_text,
                   rx_open, received, sampled, late_decodes, batch>>

\* "Next decode step"
Decode(ok) ==
    /\ gpc = "decode"
    /\ batch' = BatchAdd(BatchClear(batch), Last(sampled), n_cur, TRUE)
    /\ DecodeCalled
    /\ IF batch'.overflow
       THEN n_cur' = n_cur /\ gpc' = "panicked" /\ pending' = NoEvent
       ELSE /\ n_cur' = n_cur + 1
            /\ IF ok
               THEN gpc' = "loop" /\ pending' = NoEvent
               ELSE gpc' = "send_error" /\ pending' = Error("decode")
    /\ UNCHANGED <<mvars, ivars, xvars, request, n_ctx, completion_tokens, generated_text,
                   chan, rx_open, received, emitted, sampled>>

\* ------------------------------------------------ the consumer's side
\* A faulty variant: the newest buffered event is handed out first.
RecvIndex_Newest(c) == Len(c)

\* The buffered event recv() hands out: the oldest.
RecvIndex(c) == 1

\* `rx.recv().await` returns Some(event).
Recv ==
    /\ rx_open
    /\ chan # << >>
    /\ received' = Append(received, chan[RecvIndex(chan)])
    /\ chan' = [i \in 1..(Len(chan) - 1) |->
                    IF i < RecvIndex(chan) THEN chan[i] ELSE chan[i + 1]]
    /\ UNCHANGED <<mvars, ivars, xvars, request, n_ctx, n_cur, completion_tokens, generated_text,
                   gpc, pending, rx_open, emitted, sampled, late_decodes, batch>>

\* The consumer drops the Receiver (the handler returns or its client is
\* gone): the channel is closed and what it buffered is dropped.
DropRx ==
    /\ rx_open
    /\ rx_open' = FALSE
    /\ chan' = << >>
    /\ UNCHANGED <<mvars, ivars, xvars, request, n_ctx, n_cur, completion_tokens, generated_text,
                   gpc, pending, received, emitted, sampled, late_decodes, batch>>

\* The steps of the generator, and of the run with its consumer.
Generate ==
    \/ \E ok \in BOOLEAN : PromptDecode(ok)
    \/ LengthGuard
    \/ \E tok \in SampleTokens : SampleStep(tok)
    \/ Send
    \/ \E ok \in BOOLEAN : Decode(ok)

NextGen ==
    \/ \E ok \in BOOLEAN : PromptDecode(ok)
    \/ LengthGuard
    \/ \E tok \in SampleTokens : SampleStep(tok)
    \/ Send
    \/ \E ok \in BOOLEAN : Decode(ok)
    \/ Recv
    \/ DropRx

SpecGen == InitGen /\ [][NextGen]_vars

\* generate_blocking runs on a blocking worker of its own and every call it
\* makes returns: it takes its next step whenever it has one.
SpecGenFair == SpecGen /\ WF_vars(Generate)

\* ------------------------------ completion handlers and their workers
\* chat_completions and completions: resolve_model, then a blocking worker
\* that owns the Arc<LoadedModel>, locks its context, clears the KV cache and
\* runs generate_blocking. The handlers' Arcs are counted in pins.
SrvThreads == {1}
SrvIds == {"A"}

\* LoadedModel.id of an object
IdOf(h) == CHOOSE id \in Ids : h \in HandlesOf(id)

\* A faulty variant: the worker does not wait for the context mutex.
ContextFree_Unguarded(c) == TRUE

\* `loaded.context.lock().unwrap()` returns when nobody holds the mutex.
ContextFree(c) == c.lock = 0

\* A faulty variant: the cache is left as the previous run left it.
KvCacheClear_Skipped(c) == c

\* kv_cache_clear(): llama_memory_clear
KvCacheClear(c) == [c EXCEPT !.kv = {}]

\* ctx.decode by worker w: its tokens enter the cache.
CtxDecode(c, w) == [c EXCEPT !.kv = @ \cup {w}]

\* A faulty variant: the worker's Arc is never dropped.
DropArc_Leaked(pn, h) == pn

\* drop(Arc<LoadedModel>) by a handler or its worker
DropArc(pn, h) == [pn EXCEPT ![h] = @ - 1]

\* `mm.resolve(model_name)` answers Some(loaded): the handler owns an Arc.
\* (On None the handler answers 503 and nothing has changed.)
HandlerResolve(w, name) ==
    /\ handlers[w] = Parked
    /\ \E h \in ResolveRet(slots, name) :
        /\ h # None
        /\ pins' = [pins EXCEPT ![h] = @ + 1]
        /\ handlers' = [handlers EXCEPT ![w] = [Parked EXCEPT !.pc = "touch", !.loaded = h]]
        /\ ret' = Returned("resolve", h)
    /\ UNCHANGED <<gvars, ivars, objects, yvars,
                   slots, load_lock, pc, lid, lres, max_models, now>>

\* `mm.touch(&loaded.id)`, then `let model = loaded.model.clone();`
HandlerTouch(w) ==
    /\ handlers[w].pc = "touch"
    /\ slots' = TouchSlots(slots, IdOf(handlers[w].loaded), now)
    /\ handlers' = [handlers EXCEPT ![w] = [@ EXCEPT !.pc = "build", !.model = handlers[w].loaded]]
    /\ ret' = Quiet
    /\ UNCHANGED <<gvars, ivars, objects, yvars,
                   pins, load_lock, pc, lid, lres, max_models, now>>

\* Tokenization fails: the handler answers 400 and its locals are dropped.
HandlerReject(w) ==
    /\ handlers[w].pc = "build"
    /\ pins' = DropArc(pins, handlers[w].loaded)
    /\ handlers' = [handlers EXCEPT ![w] = Parked]
    /\ ret' = Quiet
    /\ UNCHANGED <<gvars, ivars, yvars, slots, load_lock, pc, lid, lres, max_models, now>>
    /\ objects' = Reap(objects, handlers', slots', pins', pc', lres', {handlers[w].loaded})

\* chat_stream / chat_non_stream: `loaded` moves into the closure given to
\* spawn_blocking. The streaming handler returns at once and its `model` is
\* dropped; the other one awaits the events with `model` still in scope.
HandlerSpawn(w, stream) ==
    /\ handlers[w].pc = "build"
    /\ handlers' = [handlers EXCEPT ![w] =
            [@ EXCEPT !.pc = "lock", !.model = IF stream THEN None ELSE @]]
    /\ ret' = Quiet
    /\ UNCHANGED <<gvars, ivars, objects, yvars,
                   slots, pins, load_lock, pc, lid, lres, max_models, now>>

\* The non-streaming handler returns (the channel was closed, an Error came,
\* or the client went away and the future was dropped): `model` is dropped.
HandlerReturn(w) ==
    /\ handlers[w].pc \notin {"touch", "build"}
    /\ handlers[w].model # None
    /\ handlers' = [handlers EXCEPT ![w] = [@ EXCEPT !.model = None]]
    /\ ret' = Quiet
    /\ UNCHANGED <<gvars, ivars, yvars, slots, pins, load_lock, pc, lid, lres, max_models, now>>
    /\ objects' = Reap(objects, handlers', slots', pins', pc', lres', {handlers[w].model})

\* `let mut ctx = loaded.context.lock().unwrap();`
WorkerLock(w) ==
    /\ handlers[w].pc = "lock"
    /\ ContextFree(objects[handlers[w].loaded])
    /\ objects' = [objects EXCEPT ![handlers[w].loaded].lock = w]
    /\ handlers' = [handlers EXCEPT ![w].pc = "clear"]
    /\ ret' = Quiet
    /\ UNCHANGED <<gvars, ivars, yvars, slots, pins, load_lock, pc, lid, lres, max_models, now>>

\* `ctx.kv_cache_clear();`
WorkerClear(w) ==
    /\ handlers[w].pc = "clear"
    /\ objects' = [objects EXCEPT ![handlers[w].loaded] = KvCacheClear(@)]
    /\ handlers' = [handlers EXCEPT ![w].pc = "prompt"]
    /\ ret' = Quiet
    /\ UNCHANGED <<gvars, ivars, yvars, slots, pins, load_lock, pc, lid, lres, max_models, now>>

\* generate_blocking decodes the prompt batch; on Err it sends Error and
\* returns.
WorkerPrompt(w, ok) ==
    /\ handlers[w].pc = "prompt"
    /\ objects' = [objects EXCEPT ![handlers[w].loaded] = CtxDecode(@, w)]
    /\ handlers' = [handlers EXCEPT ![w].pc = IF ok THEN "loop" ELSE "error"]
    /\ ret' = Quiet
    /\ UNCHANGED <<gvars, ivars, yvars, slots, pins, load_lock, pc, lid, lres, max_models, now>>

\* The ways a run that got past its prompt ends: Done was sent, a decode
\* failed, or a send met a dropped Receiver.
RunEnds == {"done", "error", "cancelled"}

\* generate_blocking's loop samples and decodes on the context until the
\* run ends, and returns.
WorkerLoop(w, end) ==
    /\ handlers[w].pc = "loop"
    /\ objects' = [objects EXCEPT ![handlers[w].loaded] = CtxDecode(@, w)]
    /\ handlers' = [handlers EXCEPT ![w].pc = end]
    /\ ret' = Quiet
    /\ UNCHANGED <<gvars, ivars, yvars, slots, pins, load_lock, pc, lid, lres, max_models, now>>

\* The closure returns: the MutexGuard is dropped, then `loaded`.
WorkerReturn(w) ==
    /\ handlers[w].pc \in RunEnds
    /\ pins' = DropArc(pins, handlers[w].loaded)
    /\ handlers' = [handlers EXCEPT ![w] = [@ EXCEPT !.pc = "idle", !.loaded = None]]
    /\ ret' = Quiet
    /\ UNCHANGED <<gvars, ivars, yvars, slots, load_lock, pc, lid, lres, max_models, now>>
    /\ objects' = Reap([objects EXCEPT ![handlers[w].loaded].lock = 0],
                       handlers', slots', pins', pc', lres', {handlers[w].loaded})

\* The worker's steps.
Worker(w) ==
    \/ WorkerLock(w)
    \/ WorkerClear(w)
    \/ \E ok \in BOOLEAN : WorkerPrompt(w, ok)
    \/ \E end \in RunEnds : WorkerLoop(w, end)
    \/ WorkerReturn(w)

InitSrv ==
    /\ ManagerNew
    /\ max_models = 1
    /\ GenOff
    /\ NoFile
    /\ XOff

NextSrv ==
    \/ Tick
    \/ \E t \in SrvThreads : LoadCall(t)
    \/ \E t \in SrvThreads, id \in SrvIds : LoadLock(t, id)
    \/ \E t \in SrvThreads : LoadCheck(t)
    \/ \E t \in SrvThreads : LoadTouch(t)
    \/ \E t \in SrvThreads : LoadEvict(t)
    \/ \E t \in SrvThreads : LoadMark(t)
    \/ \E t \in SrvThreads : LoadOk(t)
    \/ \E t \in SrvThreads : LoadFail(t)
    \/ \E t \in SrvThreads : LoadReturn(t, FALSE)
    \/ \E id \in SrvIds : Unload(id)
    \/ UnloadAll
    \/ \E timeout \in 1..MaxTimeout : SweepIdle(timeout)
    \/ \E w \in HandlerIds, name \in SrvIds \cup {NoName} : HandlerResolve(w, name)
    \/ \E w \in HandlerIds : HandlerTouch(w)
    \/ \E w \in HandlerIds : HandlerReject(w)
    \/ \E w \in HandlerIds, stream \in BOOLEAN : HandlerSpawn(w, stream)
    \/ \E w \in HandlerIds : HandlerReturn(w)
    \/ \E w \in HandlerIds : WorkerLock(w)
    \/ \E w \in HandlerIds : WorkerClear(w)
    \/ \E w \in HandlerIds, ok \in BOOLEAN : WorkerPrompt(w, ok)
    \/ \E w \in HandlerIds, end \in RunEnds : WorkerLoop(w, end)
    \/ \E w \in HandlerIds : WorkerReturn(w)

SpecSrv == InitSrv /\ [][NextSrv]_vars

\* A blocking worker runs on a thread of its own and every call it makes
\* returns, the mutex once its holder is gone: each worker takes its next
\* step whenever it has one.
SpecSrvFair == SpecSrv /\ \A w \in HandlerIds : WF_vars(Worker(w))

\* ------------------------------------- the routes that publish events
\* load_model and unload_model (routes/management.rs), delete_model
\* (routes/openai.rs) and AppState::broadcast_event. A thread is inside
\* load() or inside one of these handlers; the envelope's timestamp, which
\* nothing reads, is left out.
EvIds == {"A", "B"}
Envelope(type, id) == [type |-> type, data |-> [id |-> id]]

\* broadcast_event: `let _ = self.inner.event_tx.send(event.to_string());`
BroadcastEvent(b, type, id) == Append(b, Envelope(type, id))

\* load_model: `if is_loaded(&id) { return .. }`, else the path is found
\* and load(path) is started on a blocking thread.
RouteLoadCall(t, id) ==
    /\ pc[t] = "idle"
    /\ ~IsLoaded(slots, id)
    /\ pc' = [pc EXCEPT ![t] = "wait"]
    /\ lid' = [lid EXCEPT ![t] = id]
    /\ ret' = Quiet
    /\ UNCHANGED <<gvars, ivars, xvars, slots, pins, load_lock, lres, max_models, now>>

\* load() returns to load_model, which drops the Arc at once: on Ok it
\* broadcasts model.loaded, on Err nothing.
RouteLoadReturn(t) ==
    /\ pc[t] = "ret"
    /\ lres[t] # None => Len(bus) < MaxEvents
    /\ load_lock' = 0
    /\ pc' = [pc EXCEPT ![t] = "idle"]
    /\ bus' = IF lres[t] # None THEN BroadcastEvent(bus, "model.loaded", lid[t]) ELSE bus
    /\ lres' = [lres EXCEPT ![t] = None]
    /\ lid' = [lid EXCEPT ![t] = NoName]
    /\ ret' = Returned("load", lres[t])
    /\ UNCHANGED <<locks, gvars, ivars, handlers, scan, quick, checker, slots, pins, max_models, now>>
    /\ objects' = Reap(objects, handlers, slots', pins', pc', lres', {lres[t]})

\* unload_model: `let was_loaded = unload(&id); if was_loaded { broadcast }`
RouteUnload(id) ==
    /\ UnloadRet(slots, id) = 1 => Len(bus) < MaxEvents
    /\ slots' = UnloadSlots(slots, id)
    /\ bus' = IF UnloadRet(slots, id) = 1
              THEN BroadcastEvent(bus, "model.unloaded", id) ELSE bus
    /\ ret' = Returned("unload", UnloadRet(slots, id))
    /\ UNCHANGED <<locks, gvars, ivars, handlers, scan, quick, checker,
                   pins, load_lock, pc, lid, lres, max_models, now>>
    /\ objects' = Reap(objects, handlers, slots', pins', pc', lres', Dropped(slots, slots'))

\* delete_model: `if is_loaded(&model_id) {` (otherwise 404, nothing
\* changes)
DeleteCheck(t, id) ==
    /\ pc[t] = "idle"
    /\ IsLoaded(slots, id)
    /\ pc' = [pc EXCEPT ![t] = "delete"]
    /\ lid' = [lid EXCEPT ![t] = id]
    /\ ret' = Quiet
    /\ UNCHANGED <<gvars, ivars, xvars, slots, pins, load_lock, lres, max_models, now>>

\* delete_model: `unload(&model_id); broadcast_event("model.unloaded", ..)`
DeleteUnload(t) ==
    /\ pc[t] = "delete"
    /\ Len(bus) < MaxEvents
    /\ slots' = UnloadSlots(slots, lid[t])
    /\ bus' = BroadcastEvent(bus, "model.unloaded", lid[t])
    /\ pc' = [pc EXCEPT ![t] = "idle"]
    /\ lid' = [lid EXCEPT ![t] = NoName]
    /\ ret' = Returned("unload", UnloadRet(slots, lid[t]))
    /\ UNCHANGED <<locks, gvars, ivars, handlers, scan, quick, checker,
                   pins, load_lock, lres, max_models, now>>
    /\ objects' = Reap(objects, handlers, slots', pins', pc', lres', Dropped(slots, slots'))

InitEv ==
    /\ ManagerNew
    /\ max_models = 1
    /\ GenOff
    /\ NoFile
    /\ XOff

NextEv ==
    \/ Tick
    \/ \E t \in Threads, id \in EvIds : RouteLoadCall(t, id)
    \/ \E t \in Threads : LoadLock(t, lid[t])
    \/ \E t \in Threads : LoadCheck(t)
    \/ \E t \in Threads : LoadTouch(t)
    \/ \E t \in Threads : LoadEvict(t)
    \/ \E t \in Threads : LoadMark(t)
    \/ \E t \in Threads : LoadOk(t)
    \/ \E t \in Threads : LoadFail(t)
    \/ \E t \in Threads : RouteLoadReturn(t)
    \/ \E id \in EvIds : RouteUnload(id)
    \/ \E t \in Threads, id \in EvIds : DeleteCheck(t, id)
    \/ \E t \in Threads : DeleteUnload(t)
    \/ \E timeout \in 1..MaxTimeout : SweepIdle(timeout)

SpecEv == InitEv /\ [][NextEv]_vars

\* ------------------------------------------- gguf-parser: quick_scan
\* (crates/gguf-parser/src/reader.rs).  A file is its header numbers, the
\* entries written into it, the bytes that follow them (tensor infos and
\* data) and the number of bytes of all that which are on disk: size.  A
\* file cut off at byte n is the same file with size = n.
\* An entry is [key, klen, vtype, len, elem, str, num]: the key and its
\* length in bytes, the type tag, the string length or array count the value
\* states, the element tag of an array, and the value as as_str() and
\* as_u32() give it.
GGUF_MAGIC == 1179993927
GGUF_VERSION_MAX == 3
QUICK_SCAN_LIMIT == 8388608
MaxStringLen == 1000000
MaxArrayLen == 10000000
HeaderLen == 24      \* magic u32, version u32, tensor_count u64, metadata_kv_count u64

Some(v) == <<v>>
Nothing == << >>
Min(a, b) == IF a <= b THEN a ELSE b

\* One read of the parser: n bytes, by read_u32/read_u64 ("fixed": any
\* failure of read_exact becomes TruncatedHeader) or by read_exact()? ("exact":
\* the io::Error goes up as GGUFError::Io), and the error the caller raises
\* over the number read, "" when it accepts it.
Field(n, via, err) == [n |-> n, via |-> via, err |-> err]

\* GGUFValueType::try_from
ValueTypeOk(tag) == tag \in 0..12

\* read_u8 .. read_f64: width and error mapping of the fixed-width types.
Width(tag) ==
    CASE tag \in {0, 1, 7} -> 1
      [] tag \in {2, 3} -> 2
      [] tag \in {4, 5, 6} -> 4
      [] tag \in {10, 11, 12} -> 8
Via(tag) == IF tag \in {4, 10} THEN "fixed" ELSE "exact"

\* read_string
ReadString(len) ==
    <<Field(8, "fixed", IF len > MaxStringLen THEN "Other" ELSE "")>>
    \o (IF len > MaxStringLen THEN << >> ELSE <<Field(len, "exact", "")>>)

RECURSIVE Repeat(_, _)
Repeat(fs, n) == IF n = 0 THEN << >> ELSE fs \o Repeat(fs, n - 1)

\* read_value; the elements of an array are of a fixed-width type.
ReadValue(kv) ==
    CASE kv.vtype = 8 -> ReadString(kv.len)
      [] kv.vtype = 9 ->
            <<Field(4, "fixed", IF ValueTypeOk(kv.elem) THEN "" ELSE "InvalidValueType")>>
            \o (IF ~ValueTypeOk(kv.elem) THEN << >>
                ELSE <<Field(8, "fixed", IF kv.len > MaxArrayLen THEN "Other" ELSE "")>>
                     \o (IF kv.len > MaxArrayLen THEN << >>
                         ELSE Repeat(<<Field(Width(kv.elem), Via(kv.elem), "")>>, kv.len)))
      [] OTHER -> <<Field(Width(kv.vtype), Via(kv.vtype), "")>>

\* read_kv: the reads it makes, in order.
ReadKv(kv) ==
    ReadString(kv.klen)
    \o <<Field(4, "fixed", IF ValueTypeOk(kv.vtype) THEN "" ELSE "InvalidValueType")>>
    \o (IF ValueTypeOk(kv.vtype) THEN ReadValue(kv) ELSE << >>)

\* The reads made from position pos of a file of size bytes: the error
\* that stops them ("" when all succeed) and the position reached.
RECURSIVE ReadFields(_, _, _)
ReadFields(fs, pos, size) ==
    IF fs = << >> THEN [err |-> "", pos |-> pos]
    ELSE LET f == Head(fs)
         IN  IF pos + f.n > size
             THEN [err |-> IF f.via = "fixed" THEN "TruncatedHeader" ELSE "UnexpectedEof",
                   pos |-> size]
             ELSE IF f.err # "" THEN [err |-> f.err, pos |-> pos + f.n]
             ELSE ReadFields(Tail(fs), pos + f.n, size)

\* The bytes an entry takes in the file.
RECURSIVE FieldsLen(_)
FieldsLen(fs) == IF fs = << >> THEN 0 ELSE Head(fs).n + FieldsLen(Tail(fs))
KvLen(kv) == FieldsLen(ReadKv(kv))
RECURSIVE KvsLen(_)
KvsLen(kvs) == IF kvs = << >> THEN 0 ELSE KvLen(Head(kvs)) + KvsLen(Tail(kvs))
FullSize(f) == HeaderLen + KvsLen(f.kvs) + f.tail

\* kv_map.get(key): the map is collected from the entries in order, a later
\* entry of the same key replacing the earlier one.
RECURSIVE KvGet(_, _)
KvGet(md, key) ==
    IF md = << >> THEN Nothing
    ELSE IF md[Len(md)].key = key THEN Some(md[Len(md)])
    ELSE KvGet(SubSeq(md, 1, Len(md) - 1), key)

\* GGUFValue::as_str, GGUFValue::as_u32 on the value found, if any.
AsStr(o) == IF o # Nothing /\ o[1].vtype = 8 THEN Some(o[1].str) ELSE Nothing
AsU32(o) == IF o # Nothing /\ o[1].vtype \in {4, 5, 10} THEN Some(o[1].num) ELSE Nothing

\* file_type_name
FileTypeNames ==
    <<"F32", "F16", "Q4_0", "Q4_1", "Unknown", "Unknown", "Unknown", "Q8_0", "Q5_0",
      "Q5_1", "Q2_K", "Q3_K_S", "Q3_K_M", "Q3_K_L", "Q4_K_S", "Q4_K_M", "Q5_K_S",
      "Q5_K_M", "Q6_K", "IQ2_XXS", "IQ2_XS", "Q2_K_S", "IQ3_XS", "IQ3_XXS", "IQ1_S",
      "IQ4_NL", "IQ3_S", "IQ3_M", "IQ2_S", "IQ2_M", "IQ4_XS", "IQ1_M", "BF16">>
file_type_name(ft) == IF ft + 1 \in DOMAIN FileTypeNames THEN FileTypeNames[ft + 1] ELSE "Unknown"

\* format!("{arch}.context_length")
CtxKey(arch) == arch \o ".context_length"

QuickErr(e) == [ok |-> FALSE, err |-> e]

\* Ok(QuickScanResult { .. }) over the entries collected.
QuickOk(f, md) ==
    LET architecture == AsStr(KvGet(md, "general.architecture"))
        file_type == AsU32(KvGet(md, "general.file_type"))
        arch == IF architecture = Nothing THEN "llama" ELSE architecture[1]
    IN  [ok |-> TRUE,
         file_size |-> f.size,
         architecture |-> architecture,
         name |-> AsStr(KvGet(md, "general.name")),
         file_type_name |-> IF file_type = Nothing THEN Nothing
                            ELSE Some(file_type_name(file_type[1])),
         context_length |-> AsU32(KvGet(md, CtxKey(arch))),
         metadata |-> md]

\* The loop over the entries: entry i is about to be read at pos.
RECURSIVE ReadMetadata(_, _, _, _)
ReadMetadata(f, i, pos, md) ==
    IF i > Len(f.kvs) THEN QuickOk(f, md)
    ELSE IF pos >= Min(f.size, QUICK_SCAN_LIMIT) THEN QuickOk(f, md)
    ELSE LET r == ReadFields(ReadKv(f.kvs[i]), pos, f.size)
         IN  IF r.err = "" THEN ReadMetadata(f, i + 1, r.pos, Append(md, f.kvs[i]))
             ELSE IF r.err = "UnexpectedEof" THEN QuickOk(f, md)
             ELSE QuickErr(r.err)

quick_scan(f) ==
    IF ~f.readable THEN QuickErr("Io")
    ELSE IF f.size < 4 THEN QuickErr("TruncatedHeader")
    ELSE IF f.magic # GGUF_MAGIC THEN QuickErr("InvalidMagic")
    ELSE IF f.size < 8 THEN QuickErr("TruncatedHeader")
    ELSE IF f.version > GGUF_VERSION_MAX THEN QuickErr("UnsupportedVersion")
    ELSE IF f.size < HeaderLen THEN QuickErr("TruncatedHeader")
    ELSE ReadMetadata(f, 1, HeaderLen, << >>)

\* The entries the files scanned are made of, the last two malformed: an
\* unknown type tag, a string that states more than a million bytes.
Kv(key, klen, vtype, len, elem, str, num) ==
    [key |-> key, klen |-> klen, vtype |-> vtype, len |-> len, elem |-> elem,
     str |-> str, num |-> num]
KArch == Kv("general.architecture", 20, 8, 5, 0, "llama", 0)
KName == Kv("general.name", 12, 8, 1, 0, "M", 0)
KType == Kv("general.file_type", 17, 4, 0, 0, "", 15)
KCtx == Kv("llama.context_length", 20, 4, 0, 0, "", 4096)
KByte == Kv("b", 1, 0, 0, 0, "", 1)
KArray == Kv("t", 1, 9, 2, 5, "", 0)
KBadTag == Kv("x", 1, 13, 0, 0, "", 0)
KHuge == Kv("h", 1, 8, MaxStringLen + 1, 0, "", 0)
GoodEntries == {KArch, KName, KType, KCtx, KByte, KArray}
Entries == GoodEntries \cup {KBadTag, KHuge}

File(readable, magic, version, kvs, size) ==
    [readable |-> readable, magic |-> magic, version |-> version, kvs |-> kvs,
     tail |-> TensorBytes, size |-> size]
KvSeqs == UNION {[1..n -> Entries] : n \in 0..MaxKvs}
QuickFiles ==
    {File(r, m, v, kvs, 0) : r \in BOOLEAN, m \in {GGUF_MAGIC, 0},
                             v \in {GGUF_VERSION_MAX, GGUF_VERSION_MAX + 1},
                             kvs \in KvSeqs}

\* The file f with only its first n bytes on disk.
CutAt(f, n) == [f EXCEPT !.size = n]

InitQuick ==
    /\ ManagerNew
    /\ max_models = 0
    /\ GenOff
    /\ NoFile
    /\ NoHandlers /\ NoBus /\ NoScan /\ NoChecker /\ NoLocks
    /\ \E f \in QuickFiles : \E n \in 0..FullSize(f) :
           quick = [pc |-> "call", file |-> CutAt(f, n), result |-> Nothing]

\* quick_scan(path), from its call to its return.
QuickScanCall ==
    /\ quick.pc = "call"
    /\ quick' = [quick EXCEPT !.pc = "done", !.result = Some(quick_scan(quick.file))]
    /\ UNCHANGED <<locks, mvars, gvars, ivars, handlers, objects, bus, scan, checker>>

NextQuick == QuickScanCall

SpecQuick == InitQuick /\ [][NextQuick]_vars

\* --------------------------------------- gguf-parser: scan_directory
\* A file name is the sequence of its characters, a path the sequence of its
\* components below the directory scanned.  Alphabet lists the characters
\* the names are made of in byte order, which is what the sort compares.
Alphabet == <<"-", ".", "0", "1", "2", "6", "_", "f", "g", "j", "m", "n", "o", "p",
              "r", "s", "t", "u", "x">>
Rank(c) == CHOOSE i \in DOMAIN Alphabet : Alphabet[i] = c
IsAsciiDigit(c) == c \in {"0", "1", "2", "6"}

\* Ord for OsStr: byte-wise, a proper prefix first.
RECURSIVE StrLess(_, _)
StrLess(a, b) ==
    IF b = << >> THEN FALSE
    ELSE IF a = << >> THEN TRUE
    ELSE IF Head(a) # Head(b) THEN Rank(Head(a)) < Rank(Head(b))
    ELSE StrLess(Tail(a), Tail(b))

\* Ord for Path: component by component.
RECURSIVE PathLess(_, _)
PathLess(p, q) ==
    IF q = << >> THEN FALSE
    ELSE IF p = << >> THEN TRUE
    ELSE IF Head(p) # Head(q) THEN StrLess(Head(p), Head(q))
    ELSE PathLess(Tail(p), Tail(q))

\* Vec::sort on the paths found.
RECURSIVE SortPaths(_)
SortPaths(S) ==
    IF S = {} THEN << >>
    ELSE LET p == CHOOSE x \in S : \A y \in S \ {x} : PathLess(x, y)
         IN  <<p>> \o SortPaths(S \ {p})

\* Path::file_name, Path::parent
FileName(p) == p[Len(p)]
Parent(p) == SubSeq(p, 1, Len(p) - 1)

\* str::contains, str::strip_suffix, str::trim_end_matches
Contains(s, pat) == \E i \in 1..(Len(s) - Len(pat) + 1) : SubSeq(s, i, i + Len(pat) - 1) = pat
StripSuffix(s, suf) == IF EndsWith(s, suf) THEN Some(SubSeq(s, 1, Len(s) - Len(suf))) ELSE Nothing
RECURSIVE TrimEndMatches(_, _)
TrimEndMatches(s, suf) ==
    IF EndsWith(s, suf) THEN TrimEndMatches(SubSeq(s, 1, Len(s) - Len(suf)), suf) ELSE s

\* Path::extension, Path::file_stem: split at the last dot, unless the name
\* has none or begins with its only dot.
LastIndex(s, c) ==
    IF \E i \in DOMAIN s : s[i] = c
    THEN CHOOSE i \in DOMAIN s : s[i] = c /\ \A j \in DOMAIN s : s[j] = c => j <= i
    ELSE 0
Extension(name) ==
    IF LastIndex(name, ".") <= 1 THEN Nothing
    ELSE Some(SubSeq(name, LastIndex(name, ".") + 1, Len(name)))
StemOf(name) ==
    IF LastIndex(name, ".") <= 1 THEN name
    ELSE SubSeq(name, 1, LastIndex(name, ".") - 1)

\* str::rsplitn(n, c): the pieces from the right, the last one the rest.
RECURSIVE RSplitN(_, _, _)
RSplitN(s, n, c) ==
    IF n = 1 \/ LastIndex(s, c) = 0 THEN <<s>>
    ELSE <<SubSeq(s, LastIndex(s, c) + 1, Len(s))>>
         \o RSplitN(SubSeq(s, 1, LastIndex(s, c) - 1), n - 1, c)

DotGguf == <<".", "g", "g", "u", "f">>
Gguf == <<"g", "g", "u", "f">>
DashMmprojDash == <<"-", "m", "m", "p", "r", "o", "j", "-">>
UnderMmprojUnder == <<"_", "m", "m", "p", "r", "o", "j", "_">>
AllDigits(s) == \A i \in DOMAIN s : IsAsciiDigit(s[i])

\* fname.contains("-mmproj-") || fname.contains("_mmproj_")
IsCompanion_Never(fname) == FALSE
IsCompanion(fname) == Contains(fname, DashMmprojDash) \/ Contains(fname, UnderMmprojUnder)

\* detect_split_base: <base>-NNNNN-of-NNNNN.gguf
detect_split_base(fname) ==
    LET name == StripSuffix(fname, DotGguf)
        parts == RSplitN(name[1], 4, "-")
    IN  IF name = Nothing THEN Nothing
        ELSE IF /\ Len(parts) >= 4
                /\ AllDigits(parts[1])
                /\ parts[2] = <<"o", "f">>
                /\ AllDigits(parts[3])
             THEN Some(parts[4])
        ELSE Nothing

\* ModelEntry for a file whose header parse gave sc (quick_scan(path).ok()).
\* The name is the header's general.name (given) or else the file name
\* without its .gguf endings, as characters.
NewEntry(p, sc) ==
    [id |-> generate_model_id([stem |-> StemOf(FileName(p)), ext |-> "gguf"]),
     name |-> IF sc # Nothing /\ sc[1].name # Nothing
              THEN [given |-> TRUE, text |-> sc[1].name[1]]
              ELSE [given |-> FALSE, text |-> TrimEndMatches(FileName(p), DotGguf)],
     path |-> p,
     file_size |-> IF sc = Nothing THEN 0 ELSE sc[1].file_size,
     architecture |-> IF sc = Nothing THEN Nothing ELSE sc[1].architecture,
     quantization |-> IF sc = Nothing THEN Nothing ELSE sc[1].file_type_name,
     context_length |-> IF sc = Nothing THEN Nothing ELSE sc[1].context_length,
     is_split |-> FALSE,
     split_parts |-> <<p>>,
     mmproj_path |-> Nothing]

\* Result::ok
OkOf(r) == IF r.ok THEN Some(r) ELSE Nothing

\* One turn of the loop over gguf_files that builds the entries.
Visit_Strict(s) ==
    LET p == s.gguf_files[s.i]
    IN  IF ~IsCompanion(FileName(p)) /\ ~quick_scan(s.dir[p]).ok
        THEN [s EXCEPT !.pc = "failed"]
        ELSE [s EXCEPT !.i = @ + 1]
Visit(s) ==
    LET p == s.gguf_files[s.i]
        fname == FileName(p)
        base == detect_split_base(fname)
        next == [s EXCEPT !.i = @ + 1]
    IN  IF IsCompanion(fname) THEN next
        ELSE IF base # Nothing /\ base[1] \in DOMAIN s.seen_bases
        THEN [next EXCEPT !.entries[s.seen_bases[base[1]]] =
                              [@ EXCEPT !.split_parts = Append(@, p), !.is_split = TRUE]]
        ELSE [next EXCEPT !.seen_bases = IF base # Nothing
                                         THEN Insert(@, base[1], Len(s.entries) + 1)
                                         ELSE @,
                          !.entries = Append(@, NewEntry(p, OkOf(quick_scan(s.dir[p]))))]

\* One turn of the loop that hands each companion file to the first entry of
\* its directory that has none yet.
Attach(s) ==
    LET p == s.gguf_files[s.i]
        free == {k \in DOMAIN s.entries :
                    Parent(s.entries[k].path) = Parent(p) /\ s.entries[k].mmproj_path = Nothing}
        next == [s EXCEPT !.i = @ + 1]
    IN  IF ~IsCompanion(FileName(p)) \/ free = {} THEN next
        ELSE [next EXCEPT !.entries[CHOOSE k \in free : \A j \in free : k <= j].mmproj_path =
                              Some(p)]

\* The files a scanned directory may hold, and what may be in them.
Part1 == <<"m", "-", "0", "0", "0", "0", "1", "-", "o", "f", "-", "0", "0", "0", "0", "2">> \o DotGguf
Part2 == <<"m", "-", "0", "0", "0", "0", "2", "-", "o", "f", "-", "0", "0", "0", "0", "2">> \o DotGguf
Mmproj == <<"m", "-", "m", "m", "p", "r", "o", "j", "-", "f", "1", "6">> \o DotGguf
Plain == <<"n">> \o DotGguf
Under == <<"n", "_", "m", "m", "p", "r", "o", "j", "_", "x">> \o DotGguf
Text == <<"n", ".", "t", "x", "t">>
Sub == <<"s">>
ScanPaths == {<<Part1>>, <<Part2>>, <<Mmproj>>, <<Plain>>, <<Text>>, <<Sub, Plain>>, <<Sub, Under>>}

Whole(f) == CutAt(f, FullSize(f))
FGood == Whole(File(TRUE, GGUF_MAGIC, GGUF_VERSION_MAX, <<KArch, KName, KType, KCtx>>, 0))
FBare == Whole(File(TRUE, GGUF_MAGIC, GGUF_VERSION_MAX, << >>, 0))
FBadMagic == [FGood EXCEPT !.magic = 0]
FBadVersion == [FGood EXCEPT !.version = GGUF_VERSION_MAX + 1]
FBadTag == Whole(File(TRUE, GGUF_MAGIC, GGUF_VERSION_MAX, <<KName, KBadTag>>, 0))
FHuge == Whole(File(TRUE, GGUF_MAGIC, GGUF_VERSION_MAX, <<KName, KHuge>>, 0))
FCut == CutAt(FGood, FullSize(FGood) - TensorBytes - 1)
FUnreadable == [FGood EXCEPT !.readable = FALSE]
ScanFiles == {FGood, FBare, FBadMagic, FBadVersion, FBadTag, FHuge, FCut, FUnreadable}
Dirs == UNION {[S -> ScanFiles] : S \in {T \in SUBSET ScanPaths : Cardinality(T) <= MaxFiles}}

InitScan ==
    /\ ManagerNew
    /\ max_models = 0
    /\ GenOff
    /\ NoFile
    /\ NoHandlers /\ NoBus /\ NoQuick /\ NoChecker /\ NoLocks
    /\ \E d \in Dirs :
           scan = [pc |-> "walk", dir |-> d, gguf_files |-> << >>, i |-> 1,
                   entries |-> << >>, seen_bases |-> << >>]

ScanStep(s) ==
    /\ scan' = s
    /\ UNCHANGED <<locks, mvars, gvars, ivars, handlers, objects, bus, quick, checker>>

\* walk_dir, gguf_files.sort()
WalkDir ==
    /\ scan.pc = "walk"
    /\ ScanStep([scan EXCEPT !.pc = "files",
                             !.gguf_files = SortPaths({p \in DOMAIN scan.dir :
                                                Extension(FileName(p)) = Some(Gguf)})])

\* the first loop of scan_directory
ScanVisit ==
    /\ scan.pc = "files"
    /\ scan.i <= Len(scan.gguf_files)
    /\ ScanStep(Visit(scan))

ScanVisited ==
    /\ scan.pc = "files"
    /\ scan.i > Len(scan.gguf_files)
    /\ ScanStep([scan EXCEPT !.pc = "mmproj", !.i = 1])

\* the second loop of scan_directory
ScanAttach ==
    /\ scan.pc = "mmproj"
    /\ scan.i <= Len(scan.gguf_files)
    /\ ScanStep(Attach(scan))

\* Ok(entries)
ScanReturn ==
    /\ scan.pc = "mmproj"
    /\ scan.i > Len(scan.gguf_files)
    /\ ScanStep([scan EXCEPT !.pc = "done"])

NextScan ==
    \/ WalkDir
    \/ ScanVisit
    \/ ScanVisited
    \/ ScanAttach
    \/ ScanReturn

SpecScan == InitScan /\ [][NextScan]_vars

\* ------------------------------------------------- spawn_idle_checker
\* (model_manager.rs).  The clock now counts seconds here.  checker is the
\* call and the task it spawns: idle_timeout_secs, the period the ticker was
\* built with, the instant of the ticker's next tick, and whether a message
\* waits in the shutdown receiver.  pc: "new" before the call, "none" after
\* a call that spawned nothing, then "first" (the task awaits the first,
\* immediate tick), "select" (it awaits in select!), "sweep" (the tick branch
\* was taken, sweep_idle is being called) and "done" (the task has ended).
MinInterval == 30
Timeouts == {0, 10, 40}

\* Duration::from_secs(idle_timeout_secs.max(30).min(idle_timeout_secs))
IntervalSecs(t) == Min(Max(t, MinInterval), t)

CheckerTask == checker.pc \in {"first", "select", "sweep"}

InitChk ==
    /\ ManagerNew
    /\ max_models = 1
    /\ GenOff
    /\ NoFile
    /\ NoHandlers /\ NoBus /\ NoScan /\ NoQuick /\ NoLocks
    /\ \E t \in Timeouts :
           checker = [pc |-> "new", idle_timeout |-> t, period |-> 0, next |-> 0,
                      sent |-> FALSE]

CheckerStep(c) ==
    /\ checker' = c
    /\ ret' = Quiet
    /\ UNCHANGED <<locks, gvars, ivars, handlers, objects, bus, scan, quick,
                   slots, pins, load_lock, pc, lid, lres, max_models, now>>

\* Time passes.
Sleep ==
    /\ now + ClockStep <= MaxClock
    /\ now' = now + ClockStep
    /\ ret' = Quiet
    /\ UNCHANGED <<gvars, ivars, xvars, slots, pins, load_lock, pc, lid, lres, max_models>>

\* spawn_idle_checker is called: it returns at once for a timeout of 0, and
\* spawns the task otherwise.
SpawnIdleChecker ==
    /\ checker.pc = "new"
    /\ CheckerStep(IF checker.idle_timeout = 0
                   THEN [checker EXCEPT !.pc = "none"]
                   ELSE [checker EXCEPT !.pc = "first",
                                        !.period = IntervalSecs(checker.idle_timeout)])

\* tokio::time::interval(interval), ticker.tick().await: the first tick
\* completes immediately, the next is due one period later.
CheckerFirstTick ==
    /\ checker.pc = "first"
    /\ CheckerStep([checker EXCEPT !.pc = "select", !.next = now + checker.period])

\* select! finds the tick due and takes its branch; the ticker's next tick
\* is one period after the one taken.
CheckerTick ==
    /\ checker.pc = "select"
    /\ now >= checker.next
    /\ CheckerStep([checker EXCEPT !.pc = "sweep", !.next = @ + checker.period])

\* manager.sweep_idle(idle_timeout_secs), then back to select!.
CheckerSweep ==
    /\ checker.pc = "sweep"
    /\ slots' = SweepSlots(slots, pins, pc, lres, now, checker.idle_timeout)
    /\ ret' = Returned("sweep_idle", Cardinality(DOMAIN slots \ DOMAIN slots'))
    /\ checker' = [checker EXCEPT !.pc = "select"]
    /\ UNCHANGED <<locks, gvars, ivars, handlers, bus, scan, quick,
                   pins, load_lock, pc, lid, lres, max_models, now>>
    /\ objects' = Reap(objects, handlers, slots', pins', pc', lres', Dropped(slots, slots'))

\* A faulty variant: the message is taken and the loop goes on.
CheckerRecv_Ignored ==
    /\ checker.pc = "select"
    /\ checker.sent
    /\ CheckerStep([checker EXCEPT !.sent = FALSE])

\* shutdown.recv() completes inside select!: break, the task ends.
CheckerRecv ==
    /\ checker.pc = "select"
    /\ checker.sent
    /\ CheckerStep([checker EXCEPT !.pc = "done"])

\* A message is sent on the channel the checker was given a receiver of.
SendShutdown ==
    /\ ~checker.sent
    /\ CheckerStep([checker EXCEPT !.sent = TRUE])

Checker == CheckerFirstTick \/ CheckerTick \/ CheckerSweep \/ CheckerRecv

NextChk ==
    \/ Sleep
    \/ SpawnIdleChecker
    \/ CheckerFirstTick
    \/ CheckerTick
    \/ CheckerSweep
    \/ CheckerRecv
    \/ SendShutdown
    \/ \E t \in SrvThreads : LoadCall(t)
    \/ \E t \in SrvThreads, id \in SrvIds : LoadLock(t, id)
    \/ \E t \in SrvThreads : LoadCheck(t)
    \/ \E t \in SrvThreads : LoadTouch(t)
    \/ \E t \in SrvThreads : LoadEvict(t)
    \/ \E t \in SrvThreads : LoadMark(t)
    \/ \E t \in SrvThreads : LoadOk(t)
    \/ \E t \in SrvThreads : LoadFail(t)
    \/ \E t \in SrvThreads : LoadReturn(t, FALSE)

SpecChk == InitChk /\ [][NextChk]_vars

\* The task runs on the tokio runtime, which polls it whenever one of the
\* futures it awaits is ready, and select! picks the branch it polls first
\* at random: a receive that stays ready is taken in the end.
SpecChkFair == SpecChk /\ WF_vars(Checker) /\ SF_vars(CheckerRecv)

\* ------------------------------------------------ load() of a bad file
\* Whether load_from_file and LlamaContext::new succeed is a matter of the
\* file: here the file of id C is corrupt, every load of it fails, and the
\* files of the other ids load.
Corrupt == {"C"}

LoadRead(t) == IF lid[t] \in Corrupt THEN LoadFail(t) ELSE LoadOk(t)

InitCorrupt ==
    /\ ManagerNew
    /\ max_models \in 1..MaxMaxModels
    /\ GenOff
    /\ NoFile
    /\ XOff

NextCorrupt ==
    \/ Tick
    \/ \E t \in Threads : LoadCall(t)
    \/ \E t \in Threads, id \in Ids : LoadLock(t, id)
    \/ \E t \in Threads : LoadCheck(t)
    \/ \E t \in Threads : LoadTouch(t)
    \/ \E t \in Threads : LoadEvict(t)
    \/ \E t \in Threads : LoadMark(t)
    \/ \E t \in Threads : LoadRead(t)
    \/ \E t \in Threads : LoadReturn(t, FALSE)
    \/ \E id \in Ids : Unload(id)

SpecCorrupt == InitCorrupt /\ [][NextCorrupt]_vars

\* -------------------------------------------------- the manager's locks
\* (model_manager.rs).  The manager has the load mutex (load_lock), the
\* RwLock of the slot map and the RwLock of model_dirs.  A method is the
\* sequence of lock operations it makes, on each of the paths its data can
\* send it down; a thread that calls it makes them one by one and waits
\* where the lock is not to be had.  locks holds, for either RwLock, its
\* writer (0: none) and its readers, for each thread what is left of the
\* method it is in, and the number of calls made so far.
LockThreads == 1..NumLockThreads
Take(kind, lock) == [kind |-> kind, lock |-> lock]
Drop(lock) == [kind |-> "drop", lock |-> lock]

\* unload, unload_all, touch, sweep_idle, maybe_evict, the inserts and the
\* remove of load: one write section on the slot map.
WriteSlots == <<Take("write", "slots"), Drop("slots")>>
\* get_loaded, get_any_loaded, slot_info and the other queries.
ReadSlots == <<Take("read", "slots"), Drop("slots")>>
\* add_model_dir
AddModelDir == <<Take("write", "model_dirs"), Drop("model_dirs")>>
\* scan_available, and find_model_path which calls it.
ScanAvailable == <<Take("read", "model_dirs"), Drop("model_dirs")>>
\* sweep_idle(timeout_secs)
SweepIdleOps(timeout) == IF timeout = 0 THEN << >> ELSE WriteSlots
\* maybe_evict
MaybeEvictOps(max) == IF max = 0 THEN << >> ELSE WriteSlots

\* A faulty variant: touch() is called with the read guard still alive.
LoadReady_NoDrop ==
    <<Take("lock", "load_lock"), Take("read", "slots")>> \o WriteSlots
    \o <<Drop("slots"), Drop("load_lock")>>

\* load() of an id that is Ready: the guard, the read section, touch().
LoadReady ==
    <<Take("lock", "load_lock")>> \o ReadSlots \o WriteSlots \o <<Drop("load_lock")>>

\* load() of an id that is not Ready: the guard, the read section,
\* maybe_evict, the insert of the Loading slot, and then either the insert
\* of the Ready slot, followed by add_model_dir when the path has a parent
\* (the slot guard is dropped before that call), or the remove.
LoadFresh(max, ok, parent) ==
    <<Take("lock", "load_lock")>> \o ReadSlots \o MaybeEvictOps(max) \o WriteSlots
    \o WriteSlots
    \o (IF ok /\ parent THEN AddModelDir ELSE << >>)
    \o <<Drop("load_lock")>>

\* The calls a thread may make.
Methods(max) ==
    {LoadReady, WriteSlots, ReadSlots, AddModelDir, ScanAvailable}
    \cup {LoadFresh(max, ok, parent) : ok \in BOOLEAN, parent \in BOOLEAN}
    \cup {SweepIdleOps(timeout) : timeout \in 0..MaxTimeout}

NoGuard == [w |-> 0, r |-> {}]
InitLocks ==
    /\ ManagerNew
    /\ max_models \in 0..MaxMaxModels
    /\ GenOff
    /\ NoFile
    /\ NoHandlers /\ NoBus /\ NoScan /\ NoQuick /\ NoChecker
    /\ locks = [pc |-> "on", slots |-> NoGuard, model_dirs |-> NoGuard,
                todo |-> [t \in LockThreads |-> << >>], calls |-> 0]

\* What thread t holds of a lock.
Holds(t, lock) ==
    IF lock = "load_lock" THEN load_lock = t
    ELSE locks[lock].w = t \/ t \in locks[lock].r

\* Mutex::lock, RwLock::read, RwLock::write return.
Free(op) ==
    CASE op.kind = "lock" -> load_lock = 0
      [] op.kind = "read" -> locks[op.lock].w = 0
      [] op.kind = "write" -> locks[op.lock].w = 0 /\ locks[op.lock].r = {}
      [] OTHER -> TRUE

LockStep(l, m) ==
    /\ locks' = l
    /\ load_lock' = m
    /\ UNCHANGED <<gvars, ivars, handlers, objects, bus, scan, quick, checker,
                   slots, pins, pc, lid, lres, max_models, now, ret>>

\* A thread calls a method.
MethodCall(t, ops) ==
    /\ locks.todo[t] = << >>
    /\ ops # << >>
    /\ locks.calls < MaxCalls
    /\ LockStep([locks EXCEPT !.todo[t] = ops, !.calls = @ + 1], load_lock)

\* The lock a thread waits for is free: it has it.
Acquire(t) ==
    /\ locks.todo[t] # << >>
    /\ LET op == Head(locks.todo[t])
           rest == [locks EXCEPT !.todo[t] = Tail(@)]
       IN  /\ op.kind # "drop"
           /\ Free(op)
           /\ CASE op.kind = "lock" -> LockStep(rest, t)
                [] op.kind = "read" -> LockStep([rest EXCEPT ![op.lock].r = @ \cup {t}], load_lock)
                [] op.kind = "write" -> LockStep([rest EXCEPT ![op.lock].w = t], load_lock)

\* A guard is dropped.
Release(t) ==
    /\ locks.todo[t] # << >>
    /\ LET op == Head(locks.todo[t])
           rest == [locks EXCEPT !.todo[t] = Tail(@)]
       IN  /\ op.kind = "drop"
           /\ IF op.lock = "load_lock" THEN LockStep(rest, 0)
              ELSE LockStep([rest EXCEPT ![op.lock] =
                                [w |-> 0, r |-> @.r \ {t}]], load_lock)

Run(t) == Acquire(t) \/ Release(t)

NextLocks ==
    \/ \E t \in LockThreads : \E ops \in Methods(max_models) : MethodCall(t, ops)
    \/ \E t \in LockThreads : Acquire(t)
    \/ \E t \in LockThreads : Release(t)

SpecLocks == InitLocks /\ [][NextLocks]_vars

\* A thread inside a method is scheduled: it drops the guard it is about to
\* drop, and it gets the lock it asks for when that lock stays free.
SpecLocksFair == SpecLocks /\ \A t \in LockThreads : WF_vars(Run(t))

\* ------------------------------------ gguf-parser: detect_split_base
\* The function applied to file names: up to MaxSegs segments joined by
\* hyphens, with or without the suffix.
Segments == {<<"m">>, <<"o", "f">>, <<"0", "1">>, <<"2">>, <<"0", "m">>, << >>}
RECURSIVE Join(_, _)
Join(segs, sep) ==
    IF Len(segs) = 1 THEN segs[1]
    ELSE segs[1] \o sep \o Join(Tail(segs), sep)
SegLists == UNION {[1..n -> Segments] : n \in 1..MaxSegs}
SplitNames == {Join(s, <<"-">>) \o suf : s \in SegLists, suf \in {DotGguf, << >>}}

InitSplit ==
    /\ ManagerNew
    /\ max_models = 0
    /\ GenOff
    /\ NoFile
    /\ NoHandlers /\ NoBus /\ NoQuick /\ NoChecker /\ NoLocks
    /\ \E n \in SplitNames : scan = [pc |-> "split", fname |-> n, base |-> Nothing]

\* detect_split_base(&fname), from its call to its return.
DetectSplitBaseCall ==
    /\ scan.pc = "split"
    /\ scan' = [scan EXCEPT !.pc = "split done", !.base = detect_split_base(scan.fname)]
    /\ UNCHANGED <<locks, mvars, gvars, ivars, handlers, objects, bus, quick, checker>>

NextSplit == DetectSplitBaseCall

SpecSplit == InitSplit /\ [][NextSplit]_vars

\* --------------------------------- llama-core: SamplingParams::into_chain
\* An f32 is written in hundredths; NaN is the one value every comparison
\* but != is false for.
NaN == 32767
Gt(a, b) == a # NaN /\ b # NaN /\ a > b
Lt(a, b) == a # NaN /\ b # NaN /\ a < b
Ne(a, b) == a = NaN \/ b = NaN \/ a # b

\* The values into_chain is applied to; the defaults are among them.
DefaultParams ==
    [temperature |-> 80, top_k |-> 40, top_p |-> 95, min_p |-> 5, repeat_penalty |-> 110,
     frequency_penalty |-> 0, presence_penalty |-> 0, repeat_last_n |-> 64, seed |-> Nothing]
SamplingParams ==
    [temperature : {0, 80, -50, NaN}, top_k : {0, 40, -1}, top_p : {95, 100, NaN},
     min_p : {0, 5}, repeat_penalty : {100, 110}, frequency_penalty : {0, 50},
     presence_penalty : {0, 50}, repeat_last_n : {64, 0}, seed : {Nothing, Some(7)}]

\* The samplers of a chain, with the arguments they were made with.
Sampler(kind, args) == [kind |-> kind, args |-> args]

\* A faulty variant: the test is against the defaults.
HasPenalty_NonDefault(p) ==
    \/ Ne(p.repeat_penalty, DefaultParams.repeat_penalty)
    \/ Ne(p.frequency_penalty, DefaultParams.frequency_penalty)
    \/ Ne(p.presence_penalty, DefaultParams.presence_penalty)

\* `repeat_penalty != 1.0 || frequency_penalty != 0.0 || presence_penalty != 0.0`
HasPenalty(p) ==
    Ne(p.repeat_penalty, 100) \/ Ne(p.frequency_penalty, 0) \/ Ne(p.presence_penalty, 0)

\* Option::unwrap_or
UnwrapOr(o, d) == IF o = Nothing THEN d ELSE o[1]

into_chain(p) ==
    (IF HasPenalty(p)
     THEN <<Sampler("penalties", <<p.repeat_last_n, p.repeat_penalty,
                                   p.frequency_penalty, p.presence_penalty>>)>>
     ELSE << >>)
    \o (IF p.top_k > 0 THEN <<Sampler("top_k", <<p.top_k>>)>> ELSE << >>)
    \o (IF Lt(p.top_p, 100) THEN <<Sampler("top_p", <<p.top_p, 1>>)>> ELSE << >>)
    \o (IF Gt(p.min_p, 0) THEN <<Sampler("min_p", <<p.min_p, 1>>)>> ELSE << >>)
    \o (IF Gt(p.temperature, 0)
        THEN <<Sampler("temp", <<p.temperature>>), Sampler("dist", <<UnwrapOr(p.seed, 0)>>)>>
        ELSE <<Sampler("greedy", << >>)>>)

InitChain ==
    /\ ManagerNew
    /\ max_models = 0
    /\ GenOff
    /\ NoFile
    /\ NoHandlers /\ NoBus /\ NoScan /\ NoChecker /\ NoLocks
    /\ \E p \in SamplingParams : quick = [pc |-> "params", params |-> p, chain |-> << >>]

\* request.sampling_params.clone().into_chain()
IntoChainCall ==
    /\ quick.pc = "params"
    /\ quick' = [quick EXCEPT !.pc = "chain", !.chain = into_chain(quick.params)]
    /\ UNCHANGED <<locks, mvars, gvars, ivars, handlers, objects, bus, scan, checker>>

NextChain == IntoChainCall

SpecChain == InitChain /\ [][NextChain]_vars

\* ---------------------- generate_blocking, on every request it may get
\* The runs of SpecGen and those of the empty prompt and of a stop word that
\* spans two pieces.
PromptsAny == {[i \in 1..n |-> 9 + i] : n \in 0..MaxPrompt}
StopWordListsAny == StopWordLists \cup { << <<"b", "c">>, <<"c">> >> }
RequestsAny ==
    {[tokens |-> tk, max_tokens |-> m, stop_words |-> sw] :
        tk \in PromptsAny, m \in 0..MaxTokensAny, sw \in StopWordListsAny}

InitGenAny ==
    /\ ManagerNew
    /\ max_models = 0
    /\ NoFile
    /\ XOff
    /\ request \in RequestsAny
    /\ n_ctx \in 1..MaxCtx
    /\ n_cur = 0
    /\ completion_tokens = 0
    /\ generated_text = << >>
    /\ gpc = "prompt"
    /\ pending = NoEvent
    /\ chan = << >>
    /\ rx_open = TRUE
    /\ received = << >>
    /\ emitted = << >>
    /\ sampled = << >>
    /\ late_decodes = 0
    /\ batch = NoBatch

SpecGenAny == InitGenAny /\ [][NextGen]_vars

\* The consumer of a run: `while let Some(event) = rx.recv().await`, and the
\* drop of the Receiver when the handler is done or its client is gone.
Consume == Recv \/ DropRx

\* generate_blocking takes its next step whenever it has one, and the
\* consumer goes on receiving until it drops the Receiver.
SpecGenAnyFair == SpecGenAny /\ WF_vars(Generate) /\ WF_vars(Consume)

\* ====================================================== claims C1 .. C10
\* The steps the claims speak of.
ReturnStep(t) == pc[t] = "ret" /\ pc'[t] = "idle"
Gone == DOMAIN slots \ DOMAIN slots'
InLoad(t) == pc[t] \in {"check", "touch", "evict", "mark", "read", "ret"}
Pinned(k) == PinCount(slots, pins, pc, lres, k) > 0
WithStatus(st) == {k \in DOMAIN slots : slots[k].status = st}

\* C1: neither the eviction inside load nor sweep_idle removes a slot whose
\* LoadedModel has an outstanding external reference (pin count > 0) at the
\* moment of removal.
C1_NoPinnedRemoval ==
    [][((\E t \in Threads : LoadEvict(t)) \/ (\E timeout \in 0..MaxTimeout : SweepIdle(timeout)))
        => \A k \in Gone : ~Pinned(k)]_vars

\* An eviction has just ended at capacity with a pinned Ready slot in place.
C1_Witness ==
    \E t \in Threads :
        /\ pc[t] = "mark"
        /\ max_models > 0
        /\ Cardinality(Counted(slots)) >= max_models
        /\ \E k \in WithStatus("Ready") : Pinned(k)

\* C2: every slot load evicts is Ready and unpinned and is no younger than
\* any Ready unpinned slot it leaves in place; with max_models = 2 and A
\* used after B (load A, load B, touch A), load C evicts B and keeps A.
C2_EvictsLeastRecentlyUsed ==
    [][\A t \in Threads : LoadEvict(t) =>
        /\ \A v \in Gone :
            /\ slots[v].status = "Ready"
            /\ ~Pinned(v)
            /\ \A o \in DOMAIN slots' :
                (slots[o].status = "Ready" /\ ~Pinned(o))
                    => slots[v].last_used <= slots[o].last_used
        /\ ( /\ max_models = 2
             /\ lid[t] = "C"
             /\ DOMAIN slots = {"A", "B"}
             /\ \A k \in {"A", "B"} : slots[k].status = "Ready" /\ ~Pinned(k)
             /\ slots["B"].last_used < slots["A"].last_used )
            => (DOMAIN slots' = {"A"} /\ slots'["A"] = slots["A"])]_vars

\* load C has finished after evicting B: exactly A and C are Ready, and A
\* is the older of the two.
C2_Witness ==
    /\ max_models = 2
    /\ DOMAIN slots = {"A", "C"}
    /\ \A k \in DOMAIN slots : slots[k].status = "Ready"
    /\ slots["A"].last_used < slots["C"].last_used
    /\ \E t \in Threads : pc[t] = "ret" /\ lid[t] = "C"

\* C3: at most one thread is between acquiring the load mutex and returning
\* from load.
C3_OneLoadAtATime == Cardinality({t \in Threads : InLoad(t)}) <= 1

\* One load is reading its model while another thread waits for the mutex.
C3_Witness ==
    \E t, u \in Threads : pc[t] = "read" /\ pc[u] = "wait"

\* C4: in every reachable state at most one slot has status Loading.
C4_AtMostOneLoading == Cardinality(WithStatus("Loading")) <= 1

\* A slot is Loading next to a Ready one while another load is waiting.
C4_Witness ==
    /\ Cardinality(WithStatus("Loading")) = 1
    /\ WithStatus("Ready") # {}
    /\ \E u \in Threads : pc[u] = "wait"

\* C5: in every state of the map seen while no writer holds its lock, a
\* Ready slot has a handle, a Loading slot has none, and no slot is
\* Unloading.
C5_SlotShape ==
    \A k \in DOMAIN slots :
        /\ slots[k].status = "Ready" => slots[k].loaded # None
        /\ slots[k].status = "Loading" => slots[k].loaded = None
        /\ slots[k].status # "Unloading"

\* unload has just removed a slot, and a Ready and a Loading slot remain.
C5_Witness ==
    /\ ret = Returned("unload", 1)
    /\ WithStatus("Ready") # {}
    /\ WithStatus("Loading") # {}

\* The pin counts of all slots, added up.
RECURSIVE PinSum(_)
PinSum(S) ==
    IF S = {} THEN 0
    ELSE LET k == CHOOSE x \in S : TRUE
         IN PinCount(slots, pins, pc, lres, k) + PinSum(S \ {k})

\* C6, as claimed: with max_models > 0 the number of Ready or Loading slots
\* is at most max(max_models, sum of the pin counts), at every time.
C6_Original ==
    max_models > 0 =>
        Cardinality(Counted(slots)) <= Max(max_models, PinSum(DOMAIN slots))

\* C6, amended: with max_models > 0, load's eviction step ends below
\* max_models Ready or Loading slots unless every Ready slot left is pinned.
C6_EvictsUnlessPinned ==
    [][\A t \in Threads : (LoadEvict(t) /\ max_models > 0) =>
        \/ Cardinality(Counted(slots')) < max_models
        \/ \A k \in DOMAIN slots' :
                slots'[k].status = "Ready" => PinCount(slots', pins', pc', lres', k) > 0]_vars

\* A load went on past an eviction that the pins blocked: the table now
\* holds more than max_models Ready or Loading slots.
C6_Witness ==
    \E t \in Threads :
        /\ pc[t] = "read"
        /\ max_models > 0
        /\ Cardinality(Counted(slots)) > max_models

\* C7, as claimed: an id never goes from absent to anything but Loading,
\* and a Loading slot leaves that status only by the success or the failure
\* of the load that created it.
C7_Original ==
    [][\A id \in Ids :
        /\ (id \notin DOMAIN slots /\ id \in DOMAIN slots')
            => slots'[id].status = "Loading"
        /\ (id \in DOMAIN slots /\ slots[id].status = "Loading" /\ id \notin DOMAIN slots')
            => \E t \in Threads : lid[t] = id /\ LoadFail(t)
        /\ (id \in DOMAIN slots /\ slots[id].status = "Loading"
                /\ id \in DOMAIN slots' /\ slots'[id].status # "Loading")
            => \E t \in Threads : lid[t] = id /\ LoadOk(t)]_vars

\* C8: when the model read or the context creation fails, load comes to its
\* return with the error, and at the return there is no slot for its id.
C8_FailedLoadLeavesNoSlot ==
    [][\A t \in Threads :
        /\ LoadFail(t) =>
            (pc'[t] = "ret" /\ lres'[t] = None /\ lid[t] \notin DOMAIN slots')
        /\ (ReturnStep(t) /\ lres[t] = None) =>
            (ret' = Quiet /\ lid[t] \notin DOMAIN slots')]_vars

\* A load has failed next to a Ready model and is about to return the
\* error.
C8_Witness ==
    \E t \in Threads :
        /\ pc[t] = "ret"
        /\ lres[t] = None
        /\ lid[t] \notin DOMAIN slots
        /\ WithStatus("Ready") # {}

\* C9: unload(id) returns true exactly when a slot for id was present;
\* afterwards there is no slot for id and every other slot, and every
\* reference callers hold, is as before.
C9_UnloadFrame ==
    [][\A id \in Ids : Unload(id) =>
        /\ (ret' = Returned("unload", 1)) <=> (id \in DOMAIN slots)
        /\ id \notin DOMAIN slots => ret' = Quiet
        /\ DOMAIN slots' = DOMAIN slots \ {id}
        /\ \A k \in DOMAIN slots' : slots'[k] = slots[k]
        /\ pins' = pins]_vars

\* unload has just returned true and two other slots, one of them pinned,
\* are still in the table.
C9_Witness ==
    /\ ret = Returned("unload", 1)
    /\ Cardinality(DOMAIN slots) = 2
    /\ \E k \in WithStatus("Ready") : Pinned(k)

\* C10: sweep_idle(t), t > 0, removes exactly the Ready slots last used
\* before now - t whose pin count is 0 and changes no other slot;
\* sweep_idle(0) changes nothing.
C10_SweepExact ==
    [][\A timeout \in 0..MaxTimeout : SweepIdle(timeout) =>
        /\ timeout = 0 => slots' = slots
        /\ timeout > 0 =>
            Gone = {k \in WithStatus("Ready") :
                        slots[k].last_used < now - timeout /\ ~Pinned(k)}
        /\ \A k \in DOMAIN slots' : k \in DOMAIN slots /\ slots'[k] = slots[k]
        /\ pins' = pins]_vars

\* A sweep has just removed a model and left in place an idle one that is
\* pinned and one that is still Loading.
C10_Witness ==
    /\ ret.op = "sweep_idle"
    /\ \E k \in WithStatus("Ready") : Pinned(k) /\ slots[k].last_used < now - 1
    /\ WithStatus("Loading") # {}

\* ===================================================== claims C11 .. C20
\* C11: resolve(Some(id)) returns a handle exactly when a slot keyed by id
\* exists with status Ready, and then it is that slot's handle; for an
\* absent id and for a Loading slot it returns None. The table is not
\* changed.
C11_ResolveById ==
    [][\A id \in Ids : Resolve(id) =>
        /\ (ret' # Quiet) <=> (id \in DOMAIN slots /\ slots[id].status = "Ready")
        /\ ret' # Quiet =>
            /\ ret' = [op |-> "resolve", val |-> slots[id].loaded]
            /\ pins' = [pins EXCEPT ![slots[id].loaded] = @ + 1]
        /\ ret' = Quiet => pins' = pins
        /\ slots' = slots]_vars

\* resolve has just handed out the handle of a Ready slot while another
\* slot is Loading.
C11_Witness ==
    /\ ret.op = "resolve"
    /\ \E k \in WithStatus("Ready") : slots[k].loaded = ret.val /\ Pinned(k)
    /\ WithStatus("Loading") # {}

\* C12: resolve(None) returns the handle of a Ready slot no Ready slot is
\* newer than, and None exactly when no slot is Ready; a Loading slot is
\* never chosen, however new.
C12_ResolveDefault ==
    [][Resolve(NoName) =>
        /\ (ret' = Quiet) <=> (WithStatus("Ready") = {})
        /\ ret' # Quiet =>
            \E k \in WithStatus("Ready") :
                /\ ret' = [op |-> "resolve", val |-> slots[k].loaded]
                /\ pins' = [pins EXCEPT ![slots[k].loaded] = @ + 1]
                /\ \A o \in WithStatus("Ready") : slots[o].last_used <= slots[k].last_used
        /\ slots' = slots]_vars

\* resolve has just handed out the handle of the newest of two Ready slots
\* while a third slot, newer than both, is Loading.
C12_Witness ==
    /\ ret.op = "resolve"
    /\ \E k, o \in WithStatus("Ready") :
        /\ slots[k].loaded = ret.val
        /\ Pinned(k)
        /\ slots[o].last_used < slots[k].last_used
        /\ \E l \in WithStatus("Loading") : slots[k].last_used < slots[l].last_used

\* C13, as claimed: once load(e.path) has succeeded for a catalog entry e,
\* is_loaded(e.id) is true and resolve(Some(e.id)) returns the loaded
\* handle, whatever the file's stem.
C13_Original ==
    \A i \in 1..Len(catalog) :
        slots # << >> =>
            /\ IsLoaded(slots, catalog[i].id)
            /\ GetLoaded(slots, catalog[i].id) = {slots[LoadId(catalog[i].path)].loaded}

\* What the claims about a generation run speak of.
Terminal(e) == e.type \in {"Done", "Error"}
TokenEvents(es) == {i \in 1..Len(es) : es[i].type = "Token"}
RECURSIVE Pieces(_)
Pieces(es) ==
    IF es = << >> THEN << >>
    ELSE IF Head(es).type = "Token" THEN Head(es).piece \o Pieces(Tail(es))
    ELSE Pieces(Tail(es))

\* C14, as claimed: the events of every run are Token events followed by
\* the Done: when the run is over, the last event is a Done, every event
\* before it is a Token, and #Token + 1 = total.
C14_Original ==
    gpc = "done" =>
        /\ emitted # << >>
        /\ Last(emitted).type = "Done"
        /\ \A i \in 1..(Len(emitted) - 1) : emitted[i].type = "Token"
        /\ Cardinality(TokenEvents(emitted)) + 1 = Len(emitted)

\* C14, amended: the events of a run are Token events followed by at most
\* one terminal event, a Done or an Error, and nothing follows a terminal
\* event; a run that ends with its Receiver alive ends with exactly one
\* terminal event (#Token + 1 = total), and a run that ends without one has
\* lost its Receiver.
C14_TerminalLast ==
    /\ \A i \in 1..Len(emitted) :
        /\ emitted[i].type \in {"Token", "Done", "Error"}
        /\ Terminal(emitted[i]) => i = Len(emitted)
    /\ (emitted # << >> /\ Terminal(Last(emitted))) =>
        (gpc = "done" /\ Cardinality(TokenEvents(emitted)) + 1 = Len(emitted))
    /\ (gpc = "done" /\ rx_open) =>
        (emitted # << >> /\ Terminal(Last(emitted)))

\* A run is over that sent two Token events and then, a decode having
\* failed, an Error.
C14_Witness ==
    /\ gpc = "done"
    /\ rx_open
    /\ Len(emitted) = 3
    /\ TokenEvents(emitted) = {1, 2}
    /\ Last(emitted).type = "Error"

\* C15, as claimed: when a sampled piece makes the text end with a stop
\* word, the Token event of that piece is sent before the Done{StopWord};
\* with the stream a, b, .., stop_words = ["b"], a prompt of 2 tokens and
\* max_tokens = 10 the events are Token(a), Token(b), Done{StopWord(b), 2, 2}.
C15_Original ==
    /\ (emitted # << >> /\ Last(emitted).type = "Done"
            /\ Last(emitted).finish_reason.kind = "StopWord") =>
        /\ Len(emitted) >= 2
        /\ emitted[Len(emitted) - 1] = Token(token_to_piece(Last(sampled)))
    /\ ( /\ gpc = "done"
         /\ rx_open
         /\ request = [tokens |-> <<10, 11>>, max_tokens |-> 10, stop_words |-> << <<"b">> >>]
         /\ sampled = <<100, 101>> ) =>
        emitted = <<Token(<<"a">>), Token(<<"b">>), Done(StopWord(<<"b">>), 2, 2)>>

\* C15, amended: the piece that makes the text end with a stop word is not
\* sent: the Done{StopWord(w)}, w the first stop word of the list the text
\* ends with, follows the Token events of the pieces before it and counts
\* the swallowed piece in completion_tokens; in the scenario the events are
\* Token(a), Done{StopWord(b), 2, 2}.
C15_StopPieceNotSent ==
    /\ (gpc = "send_stopword" \/ (emitted # << >> /\ Last(emitted).type = "Done"
                                    /\ Last(emitted).finish_reason.kind = "StopWord")) =>
        LET d == IF gpc = "send_stopword" THEN pending ELSE Last(emitted) IN
        /\ FirstStop(generated_text, request.stop_words) # 0
        /\ d = Done(StopWord(request.stop_words[FirstStop(generated_text, request.stop_words)]),
                    Len(request.tokens), Len(sampled))
        /\ EndsWith(generated_text, d.finish_reason.word)
        /\ Cardinality(TokenEvents(emitted)) = Len(sampled) - 1
        /\ Pieces(emitted) \o token_to_piece(Last(sampled)) = generated_text
    /\ ( /\ gpc = "done"
         /\ rx_open
         /\ request = [tokens |-> <<10, 11>>, max_tokens |-> 10, stop_words |-> << <<"b">> >>]
         /\ sampled = <<100, 101>> ) =>
        emitted = <<Token(<<"a">>), Done(StopWord(<<"b">>), 2, 2)>>

\* The scenario's run is over and the consumer has taken all it sent.
C15_Witness ==
    /\ gpc = "done"
    /\ rx_open
    /\ request = [tokens |-> <<10, 11>>, max_tokens |-> 10, stop_words |-> << <<"b">> >>]
    /\ sampled = <<100, 101>>
    /\ received = emitted
    /\ Last(emitted).type = "Done"

\* C16, as claimed: for a request with max_tokens = 0 the only event of the
\* run is Done{Length} with completion_tokens = 0, and no token is sampled.
C16_Original ==
    request.max_tokens = 0 =>
        /\ sampled = << >>
        /\ emitted \in { << >>, <<Done(Length, Len(request.tokens), 0)>> }
        /\ gpc = "done" => emitted # << >>

\* C16, amended: for a request with max_tokens = 0 no token is sampled and
\* the run sends one event: Done{Length} with completion_tokens = 0 when the
\* prompt decode succeeded, Error when it failed.
C16_ZeroMaxTokens ==
    request.max_tokens = 0 =>
        /\ sampled = << >>
        /\ completion_tokens = 0
        /\ gpc \in {"prompt", "loop", "send_length", "send_prompt_error", "done"}
        /\ gpc # "done" => emitted = << >>
        /\ gpc = "done" =>
            emitted = IF n_cur = Len(request.tokens)
                      THEN <<Done(Length, Len(request.tokens), 0)>>
                      ELSE <<Error("prompt decode")>>

\* A run with max_tokens = 0 is over, and its consumer holds the Done.
C16_Witness ==
    /\ gpc = "done"
    /\ request.max_tokens = 0
    /\ received = <<Done(Length, 2, 0)>>

\* The Token events of the pieces of a sequence of sampled tokens.
TokensOf(toks) == [i \in 1..Len(toks) |-> Token(token_to_piece(toks[i]))]
Front(sq) == SubSeq(sq, 1, Len(sq) - 1)
EndTokens == {token_eos, token_eot}

\* C17: when the sampler yields EOS or EOT the run ends with Done{Stop}
\* whose prompt_tokens is the prompt's length and whose completion_tokens
\* is the number of tokens sampled, the last one included (#Token + 1);
\* prompt [10, 11] and stream [100, 101, 102, eos] give Token(a), Token(b),
\* Token(c), Done{Stop, 2, 4}.
C17_NaturalStop ==
    /\ (sampled # << >> /\ Last(sampled) \in EndTokens) =>
        /\ gpc \in {"send_stop", "done"}
        /\ (IF gpc = "send_stop" THEN emitted \o <<pending>> ELSE emitted) =
                TokensOf(Front(sampled)) \o <<Done(Stop, Len(request.tokens), Len(sampled))>>
        /\ Cardinality(TokenEvents(emitted)) + 1 = Len(sampled)
    /\ \A i \in 1..(Len(sampled) - 1) : sampled[i] \notin EndTokens
    /\ ( /\ gpc = "done"
         /\ request = [tokens |-> <<10, 11>>, max_tokens |-> 10, stop_words |-> << >>]
         /\ sampled = <<100, 101, 102, token_eos>> ) =>
        emitted = <<Token(<<"a">>), Token(<<"b">>), Token(<<"c">>), Done(Stop, 2, 4)>>

\* The scenario's run is over and its consumer has taken the four events.
C17_Witness ==
    /\ gpc = "done"
    /\ request = [tokens |-> <<10, 11>>, max_tokens |-> 10, stop_words |-> << >>]
    /\ sampled = <<100, 101, 102, token_eos>>
    /\ Len(received) = 4

\* The text after the first k sampled tokens.
RECURSIVE TextOf(_)
TextOf(toks) ==
    IF toks = << >> THEN << >> ELSE token_to_piece(Head(toks)) \o TextOf(Tail(toks))

\* C18: a run that is over, in which no EOS or EOT was sampled, no stop
\* word matched, no decode failed, the context limit was not reached and
\* the Receiver is alive, has sent exactly max_tokens Token events and then
\* Done{Length, prompt length, max_tokens}; max_tokens = 2 gives Token(a),
\* Token(b), Done{Length, 2, 2}.
C18_LengthStop ==
    /\ ( /\ gpc = "done"
         /\ rx_open
         /\ \A i \in 1..Len(sampled) : sampled[i] \notin EndTokens
         /\ \A k \in 1..Len(sampled) :
                FirstStop(TextOf(SubSeq(sampled, 1, k)), request.stop_words) = 0
         /\ \A i \in 1..Len(emitted) : emitted[i].type # "Error"
         /\ Len(request.tokens) + Len(sampled) - 1 < n_ctx ) =>
        /\ Len(sampled) = request.max_tokens
        /\ emitted = TokensOf(sampled)
                        \o <<Done(Length, Len(request.tokens), request.max_tokens)>>
    /\ ( /\ gpc = "done"
         /\ rx_open
         /\ request = [tokens |-> <<10, 11>>, max_tokens |-> 2, stop_words |-> << >>]
         /\ sampled = <<100, 101>>
         /\ n_cur < n_ctx
         /\ Last(emitted).type # "Error" ) =>
        emitted = <<Token(<<"a">>), Token(<<"b">>), Done(Length, 2, 2)>>

\* The scenario's run is over, by the max-tokens guard, and its consumer has
\* taken the three events.
C18_Witness ==
    /\ gpc = "done"
    /\ rx_open
    /\ request = [tokens |-> <<10, 11>>, max_tokens |-> 2, stop_words |-> << >>]
    /\ sampled = <<100, 101>>
    /\ n_cur < n_ctx
    /\ received = <<Token(<<"a">>), Token(<<"b">>), Done(Length, 2, 2)>>

IsPrefix(a, b) == Len(a) <= Len(b) /\ SubSeq(b, 1, Len(a)) = a

\* C19: once the Receiver is dropped nothing more is delivered; the Token
\* send that meets the closed channel ends the run with no Done and no
\* Error after it; ctx.decode is called at most once more; and the
\* generator returns, also when it was blocked on a full channel.
C19_Cancel ==
    /\ [][~rx_open =>
            /\ ~rx_open'
            /\ received' = received
            /\ chan' = << >>
            /\ (gpc = "send_token" /\ gpc' # gpc) =>
                (gpc' = "done" /\ emitted' = Append(emitted, pending))
            /\ gpc = "done" => emitted' = emitted]_vars
    /\ [](late_decodes <= 1)
    /\ [](~rx_open => <>(gpc = "done"))

\* The generator has returned from a Token send that met the closed
\* channel; the channel was full when the Receiver went.
C19_Witness ==
    /\ ~rx_open
    /\ gpc = "done"
    /\ Last(emitted).type = "Token"
    /\ received # << >>
    /\ Len(emitted) = Len(received) + ChannelCap + 1

Running == {"clear", "prompt", "loop"} \cup RunEnds
RunningOn(h) == {w \in HandlerIds : handlers[w].loaded = h /\ handlers[w].pc \in Running}

\* C21: for each loaded model at most one worker at a time is between its
\* lock of the context mutex and the return of its closure, that worker is
\* the holder of the mutex from before the cache is cleared until
\* generate_blocking has returned, and every call on a context (clear,
\* decode, sample) is made by the holder: runs on one context never
\* interleave.
C21_OneRunPerContext ==
    /\ [](\A h \in DOMAIN objects :
            /\ Cardinality(RunningOn(h)) <= 1
            /\ \A w \in RunningOn(h) : objects[h].lock = w)
    /\ [][\A h \in DOMAIN objects :
            (h \in DOMAIN objects' /\ objects'[h].context
                /\ objects'[h].kv # objects[h].kv)
                => /\ objects[h].lock # 0
                   /\ objects'[h].lock = objects[h].lock
                   /\ handlers[objects[h].lock].pc # handlers'[objects[h].lock].pc]_vars

\* Two requests resolved the same model: one is inside generate_blocking's
\* loop while the other waits for the mutex.
C21_Witness ==
    /\ handlers[1].pc = "loop"
    /\ handlers[2].pc = "lock"
    /\ handlers[1].loaded = handlers[2].loaded

\* C22: every run starts from an empty KV cache: when a worker is about to
\* decode its prompt it holds the context's mutex and the cache is empty,
\* and from then until its closure returns the cache holds nothing but that
\* run's own tokens.
C22_EmptyCacheAtStart ==
    \A w \in HandlerIds :
        LET h == handlers[w].loaded IN
        /\ handlers[w].pc = "prompt" => (objects[h].lock = w /\ objects[h].kv = {})
        /\ handlers[w].pc \in {"loop"} \cup RunEnds => objects[h].kv = {w}

\* A worker holds the mutex of a context whose cache still has the tokens
\* of the other handler's run, and is about to clear it.
C22_Witness ==
    /\ handlers[1].pc = "clear"
    /\ objects[handlers[1].loaded].kv = {2}
    /\ handlers[2].pc = "idle"

\* The objects whose context / model is allocated, the Arc<LoadedModel>
\* count of an object, and the handlers' clones of its Arc<LlamaModel>.
ContextLive == {h \in DOMAIN objects : objects[h].context}
ModelLive == {h \in DOMAIN objects : objects[h].model}
Handles_(h) == StrongCount(slots, pins, pc, lres, h)
ModelClones(h) == {w \in HandlerIds : handlers[w].model = h}

\* C23 as stated: model and context of an object are allocated exactly
\* while some Arc<LoadedModel> (a handle) points to it.
C23_Original ==
    \A h \in Handles :
        /\ h \in ContextLive <=> Handles_(h) > 0
        /\ h \in ModelLive <=> Handles_(h) > 0

\* C23, amended: the context of an object is allocated exactly while some
\* handle points to it, whether or not a slot still does; its model is
\* allocated exactly while a handle or a handler's clone of the
\* Arc<LlamaModel> points to it; and a worker that holds a handle always has
\* its next step, unless it waits for the mutex another worker holds.
C23_HandleOutlivesSlot ==
    /\ \A h \in Handles :
        /\ h \in ContextLive <=> Handles_(h) > 0
        /\ h \in ModelLive <=> (Handles_(h) > 0 \/ ModelClones(h) # {})
    /\ \A w \in HandlerIds :
        /\ handlers[w].loaded # None => handlers[w].loaded \in ContextLive \cap ModelLive
        /\ handlers[w].pc \in Running => ENABLED Worker(w)
        /\ handlers[w].pc = "lock" =>
            (ENABLED Worker(w) \/ RunningOn(handlers[w].loaded) # {})

\* A worker is inside generate_blocking on an object no slot points to any
\* more, while the same id is loaded again: two objects of one id are alive.
C23_Witness ==
    /\ handlers[1].pc = "loop"
    /\ SlotRefs(slots, handlers[1].loaded) = 0
    /\ "A" \in DOMAIN slots
    /\ slots["A"].status = "Ready"
    /\ slots["A"].loaded \in ContextLive \ {handlers[1].loaded}

\* The handlers that hold a handle to object h.
Holders(h) == {w \in HandlerIds : handlers[w].loaded = h}

\* C24: every pin a completion request takes is released: once its run has
\* ended (Done, Error or a dropped receiver) the worker drops its handle;
\* the pin count of an object is at all times the number of requests in
\* flight on it, so the drop takes it back to what it was without this
\* request; and a Ready slot whose object no request and no load() holds
\* passes the reference check of eviction and of the idle sweep.
C24_PinReleased ==
    /\ \A w \in HandlerIds :
        (handlers[w].pc \in RunEnds) ~> (handlers[w].loaded = None)
    /\ [](\A h \in Handles : pins[h] = Cardinality(Holders(h)))
    /\ [](\A id \in DOMAIN slots :
            (/\ slots[id].status = "Ready"
             /\ Holders(slots[id].loaded) = {}
             /\ LocalRefs(pc, lres, slots[id].loaded) = 0)
            => /\ id \in Evictable(slots, pins, pc, lres)
               /\ id \in Idle(slots, pins, pc, lres, slots[id].last_used + 1))

\* Both requests on the loaded model are over, the last run on its context
\* was handler 1's, and the slot can be evicted again.
C24_Witness ==
    /\ \A w \in HandlerIds : handlers[w].pc = "idle" /\ handlers[w].loaded = None
    /\ "A" \in Evictable(slots, pins, pc, lres)
    /\ objects[slots["A"].loaded].kv = {1}
    /\ pins[slots["A"].loaded] = 0

\* The model.unloaded envelopes sent for an id so far.
Unloaded(b, id) == Cardinality({i \in 1..Len(b) : b[i] = Envelope("model.unloaded", id)})

\* C25 (its part on model.unloaded): a step in which a Ready model leaves
\* the table publishes one model.unloaded envelope for it, and a step
\* publishes a model.unloaded envelope for an id only if it removes that
\* id's slot.
C25_Original ==
    [][\A id \in EvIds :
        /\ (IsLoaded(slots, id) /\ id \notin DOMAIN slots')
            => Unloaded(bus', id) = Unloaded(bus, id) + 1
        /\ Unloaded(bus', id) > Unloaded(bus, id)
            => (id \in DOMAIN slots /\ id \notin DOMAIN slots')]_vars

\* C27 (as claimed): for a well-formed file cut off at any byte offset at or
\* after the end of the fixed header, quick_scan returns Ok with exactly the
\* entries that lie wholly before the cut.
WellFormed(f) ==
    /\ f.readable
    /\ f.magic = GGUF_MAGIC
    /\ f.version <= GGUF_VERSION_MAX
    /\ \A i \in DOMAIN f.kvs : f.kvs[i] \in GoodEntries
WhollyBefore(f) ==
    LET fit == {n \in 0..Len(f.kvs) : HeaderLen + KvsLen(SubSeq(f.kvs, 1, n)) <= f.size}
    IN  SubSeq(f.kvs, 1, CHOOSE n \in fit : \A k \in fit : k <= n)
C27_Original ==
    (quick.pc = "done" /\ WellFormed(quick.file) /\ quick.file.size >= HeaderLen)
        => /\ quick.result[1].ok
           /\ quick.result[1].metadata = WhollyBefore(quick.file)

\* C26: a directory holding m-00001-of-00002.gguf, m-00002-of-00002.gguf and
\* m-mmproj-f16.gguf is scanned into exactly one entry: its path is the first
\* part, split_parts is the two parts in sorted order, is_split is true and
\* mmproj_path is the mmproj file.  In every directory, a file whose name
\* carries the companion tag never becomes an entry of its own.
SplitDir == {<<Part1>>, <<Part2>>, <<Mmproj>>}
Tagged(p) == FileName(p) \in {Mmproj, Under}
C26_ScanGrouping ==
    /\ \A k \in DOMAIN scan.entries : ~Tagged(scan.entries[k].path)
    /\ (scan.pc = "done" /\ DOMAIN scan.dir = SplitDir)
        => /\ Len(scan.entries) = 1
           /\ scan.entries[1].path = <<Part1>>
           /\ scan.entries[1].split_parts = <<<<Part1>>, <<Part2>>>>
           /\ scan.entries[1].is_split
           /\ scan.entries[1].mmproj_path = Some(<<Mmproj>>)
C26_Witness ==
    /\ scan.pc = "done"
    /\ DOMAIN scan.dir = SplitDir
    /\ Len(scan.entries) = 1
    /\ scan.entries[1].mmproj_path # Nothing

\* C28: a file whose header parse fails (bad magic, unsupported version,
\* invalid type tag, oversize string, truncation, unreadable file) does not
\* abort scan_directory: when the scan returns, every .gguf file found that is
\* neither companion-tagged nor the later part of a split set has exactly one
\* entry, and the entry of a file whose parse fails has the file stem as
\* name, size 0 and no architecture, quantization or context length.
Broken == {FBadMagic, FBadVersion, FBadTag, FHuge, FCut, FUnreadable}
Found == {scan.gguf_files[i] : i \in DOMAIN scan.gguf_files}
EntriesOf(p) == {k \in DOMAIN scan.entries : scan.entries[k].path = p}
LaterPart(p) ==
    \E k \in DOMAIN scan.entries :
        \E n \in 2..Len(scan.entries[k].split_parts) : scan.entries[k].split_parts[n] = p
Minimal(e) ==
    /\ ~e.name.given
    /\ e.name.text = StemOf(FileName(e.path))
    /\ e.file_size = 0
    /\ e.architecture = Nothing
    /\ e.quantization = Nothing
    /\ e.context_length = Nothing
C28_ParseFailureTolerated ==
    /\ scan.pc # "failed"
    /\ scan.pc = "done"
        => \A p \in Found :
              (~Tagged(p) /\ ~LaterPart(p))
                  => /\ Cardinality(EntriesOf(p)) = 1
                     /\ \A k \in EntriesOf(p) :
                           scan.dir[p] \in Broken => Minimal(scan.entries[k])
C28_Witness ==
    /\ scan.pc = "done"
    /\ Len(scan.entries) = 3
    /\ \A k \in {1, 2} : scan.dir[scan.entries[k].path] \in Broken
    /\ Minimal(scan.entries[1])
    /\ scan.dir[scan.entries[3].path] = FGood
    /\ scan.entries[3].name.given

\* C29 (as claimed): the idle checker's ticks are max(30 s, idle_timeout)
\* apart whenever idle_timeout > 0, and no checker task is started when
\* idle_timeout = 0.
C29_Original ==
    /\ [](checker.idle_timeout = 0 => ~CheckerTask)
    /\ [][(checker.pc = "select" /\ checker'.pc = "sweep")
            => checker'.next - checker.next = Max(MinInterval, checker.idle_timeout)]_vars

\* C30: once shutdown.recv() has completed in the checker the task has left
\* its loop for good and starts no sweep_idle call, and a task that has a
\* shutdown message waiting does come to that point.
C30_ShutdownStopsChecker ==
    /\ [][checker.pc = "done" => checker'.pc = "done"]_vars
    /\ [][checker'.pc = "done" => (checker.pc \in {"select", "done"} /\ checker.sent)]_vars
    /\ (CheckerTask /\ checker.sent) ~> (checker.pc = "done")
C30_Witness ==
    /\ checker.pc = "done"
    /\ checker.next > checker.period
    /\ now >= checker.next
    /\ slots = << >>
    /\ objects = << >>
    /\ pc[1] = "idle"

\* ===================================================== claims C31 .. C40

\* C31 (as claimed): a call for an id that is already Ready never waits on
\* the load mutex: while the load of another model is in flight, a thread
\* that has called load() for a Ready id can go on at once, as resolve() can.
C31_Original ==
    \A t \in Threads, id \in Ids :
        (/\ pc[t] = "wait"
         /\ AlreadyLoaded(slots, id)
         /\ load_lock \notin {0, t}
         /\ lid[load_lock] # id
         /\ Held(pins) < MaxPins)
            => /\ ENABLED LoadLock(t, id)
               /\ ENABLED Resolve(id)

\* C35: load() for an id whose slot is Ready goes the short way: it takes the
\* handle that is in the slot and leaves the table alone, then sets that
\* slot's last_used and nothing else (no slot leaves, none changes status or
\* handle, no object is created), and returns the handle it took.
SameBut(s1, s2, id) ==
    /\ DOMAIN s2 = DOMAIN s1
    /\ \A k \in DOMAIN s1 :
          /\ s2[k].status = s1[k].status
          /\ s2[k].loaded = s1[k].loaded
          /\ k # id => s2[k].last_used = s1[k].last_used
C35_ReadyLoadReturnsExisting ==
    [][\A t \in Threads :
        /\ (pc[t] = "check" /\ pc'[t] # "check" /\ IsLoaded(slots, lid[t]))
            => /\ pc'[t] = "touch"
               /\ lres'[t] = slots[lid[t]].loaded
               /\ slots' = slots
        /\ (pc[t] = "touch" /\ pc'[t] # "touch")
            => /\ pc'[t] = "ret"
               /\ lres'[t] = lres[t]
               /\ SameBut(slots, slots', lid[t])
               /\ lid[t] \in DOMAIN slots => slots'[lid[t]].last_used = now
               /\ DOMAIN objects' = DOMAIN objects
        /\ (pc[t] = "ret" /\ pc'[t] # "ret" /\ lres[t] # None)
            => /\ ret' = Returned("load", lres[t])
               /\ slots' = slots]_vars
C35_Witness ==
    \E t \in Threads :
        /\ pc[t] = "touch"
        /\ Cardinality(DOMAIN slots) = 2
        /\ IsLoaded(slots, lid[t])
        /\ slots[lid[t]].loaded = lres[t]
        /\ slots[lid[t]].last_used < now
        /\ \A k \in DOMAIN slots : k # lid[t] => slots[k].last_used < slots[lid[t]].last_used

\* C37 (as claimed): a load call that fails leaves every other slot as it
\* was: no step of a load of the corrupt file removes or changes a slot of
\* another id.
C37_Original ==
    [][\A t \in Threads :
        (lid[t] \in Corrupt /\ pc[t] \in {"check", "evict", "mark", "read", "ret"}
                            /\ pc'[t] # pc[t])
            => \A k \in DOMAIN slots :
                  k # lid[t] => (k \in DOMAIN slots' /\ slots'[k] = slots[k])]_vars


\* A thread is inside a method; it waits when the lock it asks for is taken.
InMethod(t) == locks.todo[t] # << >>
Waits(t) == InMethod(t) /\ ~Free(Head(locks.todo[t]))
Asks(t, lock) ==
    /\ InMethod(t)
    /\ Head(locks.todo[t]).kind # "drop"
    /\ Head(locks.todo[t]).lock = lock

\* C38: the manager is free of deadlock in every interleaving of calls of
\* its methods (MaxCalls of them, by NumLockThreads threads): as long as some thread is inside a method, some thread inside a
\* method can take its next step; no thread asks for the slot-map lock while
\* it holds a guard on it, and none asks for the load mutex while it holds
\* the slot-map lock; and every thread inside a method comes out of it, so
\* that none waits forever on the load mutex, the slot-map lock or the
\* model-directory lock.
C38_DeadlockFree ==
    /\ [](\A t \in LockThreads :
            /\ Asks(t, "slots") => ~Holds(t, "slots")
            /\ Asks(t, "load_lock") => ~Holds(t, "slots"))
    /\ []((\E t \in LockThreads : InMethod(t))
            => \E t \in LockThreads : InMethod(t) /\ ~Waits(t))
    /\ \A t \in LockThreads : InMethod(t) ~> ~InMethod(t)

\* Three threads are inside methods and two of them wait: one holds the load
\* mutex and the slot-map write guard, one waits for the mutex, and one waits
\* for the slot map.
C38_Witness ==
    \E t, u, v \in LockThreads :
        /\ Holds(t, "load_lock") /\ locks.slots.w = t
        /\ Waits(u) /\ Asks(u, "load_lock")
        /\ Waits(v) /\ Asks(v, "slots")


\* The name has the form <base>-<digits>-of-<digits>.gguf, the base ending
\* before position i and "-of-" standing at position j; at least `least`
\* digits in either field.
SplitForm(fname, i, j, least) ==
    /\ i < j
    /\ j + 3 <= Len(fname) - Len(DotGguf)
    /\ EndsWith(fname, DotGguf)
    /\ fname[i] = "-"
    /\ SubSeq(fname, j, j + 3) = <<"-", "o", "f", "-">>
    /\ AllDigits(SubSeq(fname, i + 1, j - 1))
    /\ AllDigits(SubSeq(fname, j + 4, Len(fname) - Len(DotGguf)))
    /\ j - 1 - i >= least
    /\ Len(fname) - Len(DotGguf) - (j + 3) >= least

\* C36 as stated: detect_split_base returns Some(base) exactly for the names
\* of the form <base>-<digits>-of-<digits>.gguf with one or more ASCII
\* digits in either field, and None for every other name.
C36_Original ==
    scan.pc = "split done" =>
        /\ scan.base # Nothing
            <=> \E i, j \in DOMAIN scan.fname : SplitForm(scan.fname, i, j, 1)
        /\ \A i, j \in DOMAIN scan.fname :
                SplitForm(scan.fname, i, j, 1) => scan.base = Some(SubSeq(scan.fname, 1, i - 1))


\* The kinds of a chain's samplers in order, and the places of one kind.
Kinds(chain) == [i \in DOMAIN chain |-> chain[i].kind]
Places(chain, kind) == {i \in DOMAIN chain : chain[i].kind = kind}
\* s is t with some elements left out.
RECURSIVE IsSubSeq(_, _)
IsSubSeq(s, t) ==
    IF s = << >> THEN TRUE
    ELSE IF t = << >> THEN FALSE
    ELSE IF Head(s) = Head(t) THEN IsSubSeq(Tail(s), Tail(t))
    ELSE IsSubSeq(s, Tail(t))
\* Order, filters and picker of the chain made from p, the penalties being
\* there exactly when `penalised`.
ChainAsStated(p, chain, penalised) ==
    /\ \/ IsSubSeq(Kinds(chain), <<"penalties", "top_k", "top_p", "min_p", "temp", "dist">>)
       \/ IsSubSeq(Kinds(chain), <<"penalties", "top_k", "top_p", "min_p", "greedy">>)
    /\ Places(chain, "penalties") # {} <=> penalised
    /\ \A i \in Places(chain, "penalties") :
            chain[i].args = <<p.repeat_last_n, p.repeat_penalty,
                              p.frequency_penalty, p.presence_penalty>>
    /\ Places(chain, "top_k") # {} <=> p.top_k > 0
    /\ \A i \in Places(chain, "top_k") : chain[i].args = <<p.top_k>>
    /\ Places(chain, "top_p") # {} <=> Lt(p.top_p, 100)
    /\ \A i \in Places(chain, "top_p") : chain[i].args[1] = p.top_p
    /\ Places(chain, "min_p") # {} <=> Gt(p.min_p, 0)
    /\ \A i \in Places(chain, "min_p") : chain[i].args[1] = p.min_p
    /\ IF Gt(p.temperature, 0)
       THEN /\ Len(chain) >= 2
            /\ chain[Len(chain) - 1] = Sampler("temp", <<p.temperature>>)
            /\ chain[Len(chain)] = Sampler("dist", <<UnwrapOr(p.seed, 0)>>)
       ELSE /\ chain[Len(chain)] = Sampler("greedy", << >>)
            /\ Places(chain, "temp") = {} /\ Places(chain, "dist") = {}

\* C34 as stated: the penalties are in the chain exactly when some penalty
\* parameter differs from its default (1.1, 0, 0, 64).
C34_Original ==
    quick.pc = "chain" =>
        ChainAsStated(quick.params, quick.chain,
                      \/ Ne(quick.params.repeat_penalty, DefaultParams.repeat_penalty)
                      \/ Ne(quick.params.frequency_penalty, DefaultParams.frequency_penalty)
                      \/ Ne(quick.params.presence_penalty, DefaultParams.presence_penalty)
                      \/ quick.params.repeat_last_n # DefaultParams.repeat_last_n)

\* C34, amended: into_chain adds the samplers in the order penalties, top_k
\* (when top_k > 0), top_p (when top_p < 1.0), min_p (when min_p > 0.0), and
\* then the picker, temperature and a distribution sampler seeded with the
\* seed or 0 when temperature > 0, greedy otherwise; the penalties are added
\* exactly when repeat_penalty is not 1.0 or frequency_penalty or
\* presence_penalty is not 0.0, which includes the defaults.
C34_ChainOrder ==
    quick.pc = "chain" =>
        ChainAsStated(quick.params, quick.chain,
                      \/ Ne(quick.params.repeat_penalty, 100)
                      \/ Ne(quick.params.frequency_penalty, 0)
                      \/ Ne(quick.params.presence_penalty, 0))

\* The chain of the defaults: all four filters, temperature, dist(0).
C34_Witness ==
    /\ quick.pc = "chain"
    /\ quick.params = DefaultParams
    /\ Kinds(quick.chain) = <<"penalties", "top_k", "top_p", "min_p", "temp", "dist">>
    /\ quick.chain[6].args = <<0>>


\* w is the end of text, character by character.
IsSuffix(w, text) ==
    /\ Len(w) <= Len(text)
    /\ \A i \in 1..Len(w) : text[Len(text) - Len(w) + i] = w[i]
\* The text after the first k sampled tokens ends with some stop word.
StopsAt(k) ==
    \E i \in 1..Len(request.stop_words) :
        IsSuffix(request.stop_words[i], TextOf(SubSeq(sampled, 1, k)))
\* The event of the send under way, or else the last one sent.
Latest == IF gpc \in SendSites THEN pending ELSE Last(emitted)

\* C32: no token is sampled after a piece that made the text end with a
\* stop word; when the piece just sampled makes the text, all pieces
\* together, end with a stop word, the run's next and last event is
\* Done{StopWord(w)}, w the first stop word of the request's list the text
\* ends with, with the number of sampled tokens as completion_tokens; a
\* first piece b with stop_words = [b] gives Done{StopWord(b)} with
\* completion_tokens = 1.
C32_StopWord ==
    /\ \A k \in 1..(Len(sampled) - 1) : ~StopsAt(k)
    /\ (sampled # << >> /\ Last(sampled) \notin EndTokens /\ StopsAt(Len(sampled))) =>
        /\ generated_text = TextOf(sampled)
        /\ gpc \in {"send_stopword", "done"}
        /\ Latest.type = "Done"
        /\ Latest.finish_reason.kind = "StopWord"
        /\ \E i \in 1..Len(request.stop_words) :
                /\ Latest.finish_reason.word = request.stop_words[i]
                /\ IsSuffix(request.stop_words[i], generated_text)
                /\ \A j \in 1..(i - 1) : ~IsSuffix(request.stop_words[j], generated_text)
        /\ Latest.completion_tokens = Len(sampled)
        /\ Latest.prompt_tokens = Len(request.tokens)
    /\ (request.stop_words = << <<"b">> >> /\ sampled = <<101>>) =>
        Latest = Done(StopWord(<<"b">>), Len(request.tokens), 1)

\* The pieces b and c were sampled, the list is [bc, c], and the consumer has
\* got Token(b) and Done{StopWord(bc)} with completion_tokens = 2.
C32_Witness ==
    /\ gpc = "done"
    /\ request.stop_words = << <<"b", "c">>, <<"c">> >>
    /\ sampled = <<101, 102>>
    /\ received = <<Token(<<"b">>), Done(StopWord(<<"b", "c">>), Len(request.tokens), 2)>>

\* C33: in the loop a token is given to decode only at a position below
\* n_ctx: the batch of a loop decode holds the token just sampled at
\* position n_cur = prompt length + number of decodes made in the loop,
\* which is below n_ctx; and the Token send that returns with n_cur >= n_ctx
\* is followed by the send of Done{Length}, not by a decode.
C33_ContextGuard ==
    /\ [][(gpc = "decode" /\ gpc' # gpc) =>
            /\ n_cur < n_ctx
            /\ n_cur = Len(request.tokens) + Len(sampled) - 1
            /\ batch'.token = <<Last(sampled)>>
            /\ batch'.pos = <<n_cur>>
            /\ n_cur' = n_cur + 1]_vars
    /\ [][(gpc = "send_token" /\ gpc' # gpc /\ rx_open /\ n_cur >= n_ctx) =>
            /\ emitted' = Append(emitted, Token(token_to_piece(Last(sampled))))
            /\ gpc' = "send_ctx"
            /\ pending' = Done(Length, Len(request.tokens), completion_tokens)
            /\ batch' = batch]_vars
    /\ [](gpc = "decode" => n_cur < n_ctx)

\* Three tokens were sampled after a prompt of two, the third filled the
\* context, and the run is about to send Done{Length} after its Token.
C33_Witness ==
    /\ gpc = "send_ctx"
    /\ Len(request.tokens) = 2
    /\ Len(sampled) = 3
    /\ n_cur = n_ctx
    /\ batch.pos = <<n_ctx - 1>>
    /\ Last(emitted).type = "Token"
    /\ pending = Done(Length, 2, 3)

\* C39: every run of generate_blocking returns; it samples at most
\* max_tokens tokens; and when it has returned it has sent a Done or an
\* Error as its last event, unless the Receiver was dropped.
C39_Terminates ==
    /\ <>(gpc = "done")
    /\ [](Len(sampled) <= request.max_tokens /\ completion_tokens = Len(sampled))
    /\ []((gpc = "done" /\ (emitted = << >> \/ ~Terminal(Last(emitted)))) => ~rx_open)

\* A run has returned after max_tokens = MaxTokensAny samples, and its
\* consumer, still there, holds all its events, the Done last.
C39_Witness ==
    /\ gpc = "done"
    /\ rx_open
    /\ request.max_tokens = MaxTokensAny
    /\ Len(sampled) = MaxTokensAny
    /\ received = emitted
    /\ Last(received).type = "Done"

\* C40 as stated: the batch never holds more tokens than its capacity
\* max(prompt length, 1), the assertion of LlamaBatch::add never fails, and
\* whenever the sampler is called, its index n_tokens - 1 is a position of
\* the batch for which logits were asked, whatever the prompt's length.
C40_Original ==
    /\ ~batch.overflow
    /\ gpc # "panicked"
    /\ NTokens(batch) <= batch.capacity
    /\ gpc \notin {"off", "prompt"} => batch.capacity = Max(Len(request.tokens), 1)
    /\ (gpc = "loop" /\ ~AtMaxTokens) =>
        /\ NTokens(batch) - 1 >= 0
        /\ batch.logits[NTokens(batch)]

====
